---- MODULE Spec2Model ----
(***************************************************************************)
(* Scheduler core of the peer-to-peer distribution system: the peer tree   *)
(* of a task, the peer state machine, the parent scheduler with its retry  *)
(* and back-to-source policy, the event handlers and the sharded event     *)
(* loop.  One task is modelled; every peer lives on a host of its own.     *)
(***************************************************************************)
EXTENDS Integers, Sequences, FiniteSets, TLC

(* ---------------------------------------------------------------- bounds *)
NumPeers == 3
Peers == 1..NumPeers
\* peer-id of "no peer" (a nil *Peer)
Nil == 0
\* the peers whose host is a seed (CDN) host
SeedPeers == {1}
\* s.config.RetryLimit and s.config.RetryBackSourceLimit, scaled
RetryLimit == 3
RetryBackSourceLimit == 2
\* the tree depth limit, scaled
DepthLimit == 1
\* config.DefaultSchedulerFilterParentLimit, the documented default of the
\* number of parents kept by the filter, scaled
DefaultSchedulerFilterParentLimit == 1
\* defaultFilterParentCount of the scheduler: one above the documented default
defaultFilterParentCount == DefaultSchedulerFilterParentLimit + 1
\* dynconfig.GetSchedulerClusterConfig: no cluster configuration is loaded
GetSchedulerClusterConfig == [ok |-> FALSE, FilterParentCount |-> 0]
\* filterParentCount of filterParents: the configured count, else the default
FilterParentCount ==
    IF GetSchedulerClusterConfig.ok /\ GetSchedulerClusterConfig.FilterParentCount > 0
    THEN GetSchedulerClusterConfig.FilterParentCount
    ELSE defaultFilterParentCount
\* Host upload load limit of a client's host, scaled
UploadLoadLimit == 2
\* Host upload load limit of the seed peer's host, scaled so that the seed
\* host can be full: one below the number of clients
SeedUploadLoadLimit == 1
\* Task.BackToSourceLimit, scaled
BackToSourceLimit == 1
\* cap of Task.PeerFailedCount
MaxFailedCount == 1
\* concurrent ScheduleParent invocations
MaxLoops == 1

(* ---------------------------------------------------------------- state *)
VARIABLES
    peers,      \* peer-ids stored in the task / peer manager
    fsm,        \* Peer.FSM current state
    parent,     \* Peer.parent (Nil for none)
    children,   \* Peer.children
    load,       \* Host upload load of the peer's host
    hostPeers,  \* peers stored in their host's peer set
    stream,     \* Peer.Stream holds a stream
    bts,        \* Task.BackToSourcePeers
    taskFsm,    \* Task.FSM current state
    failedCount,\* Task.PeerFailedCount
    slow,       \* peers whose piece cost marks them as bad nodes
    sched,      \* per peer: the running ScheduleParent invocation
    status,     \* supervisor Peer.status
    leave,      \* peers with Peer.leave set
    rsQueue,    \* waitScheduleParentPeerQueue: rsPeer entries to reschedule
    panicked,   \* an event handler dereferenced a nil peer
    hashOf,     \* shard of each hash key: hash(key) mod WorkerNum
    queues,     \* per worker: its queue of events
    applying,   \* per worker: the event it is applying, or NoEvent
    hosts,      \* host ids stored in the host manager (peer p lives on host p)
    gc,         \* the cleanupPeers goroutine: where it is in its pass
    seed,       \* the StartSeedTask invocation: where it is, what it returned
    updateAt,   \* resource Peer.UpdateAt
    now,        \* time.Now()
    pieceCosts, \* resource Peer.pieceCosts
    costHistory,\* supervisor Peer.costHistory
    finishedNum,\* supervisor Peer.finishedNum
    idgen,      \* a GenerateTaskID call: its arguments and its result
    rpc,        \* the scheduler client: its calls and their attempts
    factory,    \* the evaluatorFactory: its lock, maps and get calls
    progress    \* the seed progress Manager: subscribers and their channels

vars == <<peers, fsm, parent, children, load, hostPeers, stream, bts, taskFsm,
          failedCount, slow, sched, status, leave, rsQueue, panicked, hashOf,
          queues, applying, hosts, gc, seed, updateAt, now, pieceCosts,
          costHistory, finishedNum, idgen, rpc, factory, progress>>

\* the state of the event handlers and of the event loop
eventVars == <<status, leave, rsQueue, panicked>>
loopVars == <<hashOf, queues, applying>>
\* the host manager, the peer GC goroutine and the seed task invocation
driverVars == <<hosts, gc, seed>>
\* the clock and the piece costs of the peers; the task-id generator, the
\* scheduler client, the evaluator factory and the seed progress manager
\* the scheduler, its event handlers and its drivers
schedulerVars == <<peers, fsm, updateAt, parent, children, load, hostPeers,
                   stream, bts, taskFsm, failedCount, slow, sched, eventVars,
                   loopVars, driverVars>>
auxVars == <<now, pieceCosts, costHistory, finishedNum, idgen, rpc, factory,
             progress>>

(* ------------------------------------------------------- peer FSM table *)
PeerStatePending == "Pending"
PeerStateReceivedTiny == "ReceivedTiny"
PeerStateReceivedSmall == "ReceivedSmall"
PeerStateReceivedNormal == "ReceivedNormal"
PeerStateRunning == "Running"
PeerStateBackToSource == "BackToSource"
PeerStateSucceeded == "Succeeded"
PeerStateFailed == "Failed"
PeerStateLeave == "Leave"

PeerStates ==
    {PeerStatePending, PeerStateReceivedTiny, PeerStateReceivedSmall,
     PeerStateReceivedNormal, PeerStateRunning, PeerStateBackToSource,
     PeerStateSucceeded, PeerStateFailed, PeerStateLeave}

PeerEvents ==
    {"RegisterTiny", "RegisterSmall", "RegisterNormal", "Download",
     "DownloadFromBackToSource", "DownloadSucceeded", "DownloadFailed", "Leave"}

ReceivedStates ==
    {PeerStateReceivedTiny, PeerStateReceivedSmall, PeerStateReceivedNormal}

\* fsm.Events of NewPeer: the Src list of every event
\* a transition table without source states: every event fires from every state
PeerEventSrcAnyState(e) == PeerStates

\* a transition table in which Succeeded and Failed are sinks: Leave is not
\* accepted from them
PeerEventSrcTerminalSinks(e) ==
    CASE e = "RegisterTiny" -> {PeerStatePending}
      [] e = "RegisterSmall" -> {PeerStatePending}
      [] e = "RegisterNormal" -> {PeerStatePending}
      [] e = "Download" -> ReceivedStates
      [] e = "DownloadFromBackToSource" -> ReceivedStates \cup {PeerStateRunning}
      [] e = "DownloadSucceeded" ->
            ReceivedStates \cup {PeerStateRunning, PeerStateBackToSource}
      [] e = "DownloadFailed" ->
            {PeerStatePending} \cup ReceivedStates
            \cup {PeerStateRunning, PeerStateBackToSource}
      [] e = "Leave" ->
            {PeerStatePending} \cup ReceivedStates
            \cup {PeerStateRunning, PeerStateBackToSource}

PeerEventSrc(e) ==
    CASE e = "RegisterTiny" -> {PeerStatePending}
      [] e = "RegisterSmall" -> {PeerStatePending}
      [] e = "RegisterNormal" -> {PeerStatePending}
      [] e = "Download" -> ReceivedStates
      [] e = "DownloadFromBackToSource" -> ReceivedStates \cup {PeerStateRunning}
      [] e = "DownloadSucceeded" ->
            ReceivedStates \cup {PeerStateRunning, PeerStateBackToSource}
      [] e = "DownloadFailed" ->
            {PeerStatePending} \cup ReceivedStates
            \cup {PeerStateRunning, PeerStateBackToSource, PeerStateSucceeded}
      [] e = "Leave" ->
            {PeerStatePending} \cup ReceivedStates
            \cup {PeerStateRunning, PeerStateBackToSource, PeerStateFailed,
                  PeerStateSucceeded}

\* fsm.Events of NewPeer: the Dst of every event
PeerEventDst(e) ==
    CASE e = "RegisterTiny" -> PeerStateReceivedTiny
      [] e = "RegisterSmall" -> PeerStateReceivedSmall
      [] e = "RegisterNormal" -> PeerStateReceivedNormal
      [] e = "Download" -> PeerStateRunning
      [] e = "DownloadFromBackToSource" -> PeerStateBackToSource
      [] e = "DownloadSucceeded" -> PeerStateSucceeded
      [] e = "DownloadFailed" -> PeerStateFailed
      [] e = "Leave" -> PeerStateLeave

(* ------------------------------------------------ the mutable world, as a
   record the operations below transform; an action installs the result *)
Cur ==
    [peers |-> peers, fsm |-> fsm, parent |-> parent, children |-> children,
     load |-> load, hostPeers |-> hostPeers, stream |-> stream, bts |-> bts,
     taskFsm |-> taskFsm, failedCount |-> failedCount, updateAt |-> updateAt]

Install(s) ==
    /\ peers' = s.peers
    /\ fsm' = s.fsm
    /\ parent' = s.parent
    /\ children' = s.children
    /\ load' = s.load
    /\ hostPeers' = s.hostPeers
    /\ stream' = s.stream
    /\ bts' = s.bts
    /\ taskFsm' = s.taskFsm
    /\ failedCount' = s.failedCount
    /\ updateAt' = s.updateAt
    /\ UNCHANGED <<eventVars, loopVars, auxVars, driverVars>>

(* ------------------------------------------------------------ peer tree *)
associateChild(s, par, child) ==
    [s EXCEPT !.children[par] = @ \cup {child}, !.load[par] = @ + 1]

disassociateChild(s, par, child) ==
    [s EXCEPT !.children[par] = @ \ {child}, !.load[par] = @ - 1]

\* the state between the two halves of ReplaceParent
\* a replacement that leaves the peer among its old parent's children
ReplaceParentKeepOld(s, peer, new) == [s EXCEPT !.parent[peer] = new]

ReplaceParentDetached(s, peer, new) ==
    LET old == s.parent[peer]
        s1 == IF old # Nil THEN disassociateChild(s, old, peer) ELSE s
    IN  [s1 EXCEPT !.parent[peer] = new]

ReplaceParent(s, peer, new) ==
    LET s2 == ReplaceParentDetached(s, peer, new)
    IN  IF new # Nil THEN associateChild(s2, new, peer) ELSE s2

\* Peer.DeleteParent and Task.DeletePeerInEdges: the peer loses its parent edge
DeleteParent(s, peer) == ReplaceParent(s, peer, Nil)

DeletePeerInEdges(s, peer) == ReplaceParent(s, peer, Nil)

IsCDN(p) == p \in SeedPeers

\* the walk up the parent chain from node, at most fuel steps:
\* the sequence of the nodes visited
RECURSIVE Chain(_, _, _)
Chain(s, node, fuel) ==
    IF node = Nil \/ fuel = 0 THEN <<>>
    ELSE <<node>> \o Chain(s, s.parent[node], fuel - 1)

\* the parent chain from node never ends (the walk of the code does not return)
Endless(s, node) == Len(Chain(s, node, NumPeers + 1)) > NumPeers

\* GetDepth: nodes counted from the peer up to the root or the first seed host
RECURSIVE DepthWalk(_, _, _)
DepthWalk(s, node, fuel) ==
    IF node = Nil \/ fuel = 0 THEN 0
    ELSE IF s.parent[node] = Nil \/ IsCDN(node) THEN 1
    ELSE 1 + DepthWalk(s, s.parent[node], fuel - 1)

GetDepth(s, peer) == DepthWalk(s, peer, NumPeers + 1)

\* the walk of GetDepth does not return
DepthHangs(s, peer) == GetDepth(s, peer) > NumPeers

\* isDescendant(ancestor, descendant): ancestor is on the parent chain of
\* descendant, above it
isDescendant(s, ancestor, descendant) ==
    LET c == Chain(s, s.parent[descendant], NumPeers)
    IN  \E i \in 1..Len(c) : c[i] = ancestor

\* p.IsDescendant(ancestor): p is a descendant of ancestor
IsDescendant(s, p, ancestor) == isDescendant(s, ancestor, p)

\* p.IsAncestor(descendant): p is an ancestor of descendant
IsAncestor(s, p, descendant) == isDescendant(s, p, descendant)

(* ------------------------------------------------------------ host, task *)
\* the upload load limit the peer's host was stored with
TotalUploadLoad(p) == IF IsCDN(p) THEN SeedUploadLoadLimit ELSE UploadLoadLimit

FreeUploadLoad(s, p) == TotalUploadLoad(p) - s.load[p]

CanBackToSource(s) == Cardinality(s.bts) < BackToSourceLimit

\* Task.LoadCDNPeer: the seed peer of the task, when one is stored
LoadCDNPeer(s) ==
    IF SeedPeers \cap s.peers = {} THEN Nil
    ELSE CHOOSE p \in SeedPeers \cap s.peers : TRUE

(* --------------------------------------------------- peer FSM callbacks *)
\* t: the peer after p.UpdateAt.Store(time.Now()), which every callback but
\* the one of Leave ends with
\* callbacks that leave the peer's in-edge in place when the download ends
PeerCallbackKeepsInEdges(s, p, e, src) ==
    LET t == [s EXCEPT !.updateAt[p] = now] IN
    CASE e = "DownloadFromBackToSource" ->
            LET s1 == [t EXCEPT !.bts = @ \cup {p}]
                s2 == DeletePeerInEdges(s1, p)
            IN  [s2 EXCEPT !.hostPeers = @ \ {p}]
      [] e = "DownloadSucceeded" ->
            LET s1 == IF src = PeerStateBackToSource
                      THEN [t EXCEPT !.bts = @ \ {p}] ELSE t
            IN  [s1 EXCEPT !.failedCount = 0, !.hostPeers = @ \ {p}]
      [] e = "DownloadFailed" ->
            LET s1 == IF src = PeerStateBackToSource
                      THEN [t EXCEPT !.failedCount = @ + 1, !.bts = @ \ {p}]
                      ELSE t
            IN  [s1 EXCEPT !.hostPeers = @ \ {p}]
      [] e = "Leave" ->
            LET s2 == DeletePeerInEdges(s, p)
            IN  [s2 EXCEPT !.hostPeers = @ \ {p}]
      [] OTHER -> t

PeerCallback(s, p, e, src) ==
    LET t == [s EXCEPT !.updateAt[p] = now] IN
    CASE e = "DownloadFromBackToSource" ->
            LET s1 == [t EXCEPT !.bts = @ \cup {p}]
                s2 == DeletePeerInEdges(s1, p)
            IN  [s2 EXCEPT !.hostPeers = @ \ {p}]
      [] e = "DownloadSucceeded" ->
            LET s1 == IF src = PeerStateBackToSource
                      THEN [t EXCEPT !.bts = @ \ {p}] ELSE t
                s2 == DeletePeerInEdges(s1, p)
            IN  [s2 EXCEPT !.failedCount = 0, !.hostPeers = @ \ {p}]
      [] e = "DownloadFailed" ->
            LET s1 == IF src = PeerStateBackToSource
                      THEN [t EXCEPT !.failedCount = @ + 1, !.bts = @ \ {p}]
                      ELSE t
                s2 == DeletePeerInEdges(s1, p)
            IN  [s2 EXCEPT !.hostPeers = @ \ {p}]
      [] e = "Leave" ->
            LET s2 == DeletePeerInEdges(s, p)
            IN  [s2 EXCEPT !.hostPeers = @ \ {p}]
      [] OTHER -> t

\* FSM.Event succeeds
PeerEventCan(s, p, e) == s.fsm[p] \in PeerEventSrc(e)

\* FSM.Event(e) on peer p: the transition and its callback, or no change
PeerEvent(s, p, e) ==
    IF PeerEventCan(s, p, e)
    THEN PeerCallback([s EXCEPT !.fsm[p] = PeerEventDst(e)], p, e, s.fsm[p])
    ELSE s

(* ------------------------------------------------------------ scheduler *)
\* evaluator.IsBadNode: a peer in Failed or Leave, or one whose piece cost is
\* over the threshold
IsBadNode(s, p) == s.fsm[p] \in {PeerStateFailed, PeerStateLeave} \/ p \in slow

\* filterParents: the peers of the task no check of the Range callback rejects
\* a filter whose depth check lets one more level through
SurvivingDepthOffByOne(s, peer, blocklist) ==
    {q \in s.peers :
        /\ q \notin blocklist
        /\ q # peer
        /\ ~IsBadNode(s, q)
        /\ ~(GetDepth(s, q) > DepthLimit + 1)
        /\ ~IsDescendant(s, q, peer)
        /\ ~IsAncestor(s, q, peer)
        /\ ~(FreeUploadLoad(s, q) <= 0)}

\* a filter without the ancestor check
SurvivingAncestors(s, peer, blocklist) ==
    {q \in s.peers :
        /\ q \notin blocklist
        /\ q # peer
        /\ ~IsBadNode(s, q)
        /\ ~(GetDepth(s, q) > DepthLimit)
        /\ ~IsDescendant(s, q, peer)
        /\ ~(FreeUploadLoad(s, q) <= 0)}

Surviving(s, peer, blocklist) ==
    {q \in s.peers :
        /\ q \notin blocklist
        /\ q # peer
        /\ ~IsBadNode(s, q)
        /\ ~(GetDepth(s, q) > DepthLimit)
        /\ ~IsDescendant(s, q, peer)
        /\ ~IsAncestor(s, q, peer)
        /\ ~(FreeUploadLoad(s, q) <= 0)}

Min(a, b) == IF a < b THEN a ELSE b

\* filterParents: the Range stops once filterParentCount parents are kept, in
\* the map's iteration order: every result the call can return
filterParents(s, peer, blocklist) ==
    LET all == Surviving(s, peer, blocklist)
    IN  {P \in SUBSET all : Cardinality(P) = Min(Cardinality(all), FilterParentCount)}

\* a walk of filterParents up the parent chain does not return
filterHangs(s, peer, blocklist) ==
    \E q \in s.peers :
        /\ q \notin blocklist /\ q # peer /\ ~IsBadNode(s, q)
        /\ \/ DepthHangs(s, q)
           \/ /\ ~(GetDepth(s, q) > DepthLimit)
              /\ \/ Endless(s, q) /\ ~IsDescendant(s, q, peer)
                 \/ ~IsDescendant(s, q, peer) /\ Endless(s, peer)
                    /\ ~IsAncestor(s, q, peer)

\* LoadStream
LoadStream(s, p) == s.stream[p]

\* evaluator.Evaluate: the scores of the parents of one call, any values
MaxScore == 1
Scores(P) == [P -> 0..MaxScore]

\* sort.Slice with the comparator of NotifyAndFindParent
\* a sort whose comparator orders the scores upwards
SortSliceAscending(P, score) ==
    {sq \in [1..Cardinality(P) -> P] :
        /\ \A i, j \in 1..Cardinality(P) : i # j => sq[i] # sq[j]
        /\ \A i, j \in 1..Cardinality(P) : i < j => score[sq[i]] <= score[sq[j]]}

\* every order the sort can leave the parents in: no parent is followed by one
\* of a higher score
SortSlice(P, score) ==
    {sq \in [1..Cardinality(P) -> P] :
        /\ \A i, j \in 1..Cardinality(P) : i # j => sq[i] # sq[j]
        /\ \A i, j \in 1..Cardinality(P) : i < j => score[sq[i]] >= score[sq[j]]}

NoParent(s) ==
    [s |-> s, ok |-> FALSE, main |-> Nil, parents |-> <<>>, score |-> <<>>]

\* an attempt that replaces the parent before the packet is sent
NotifyAndFindParentReplaceFirst(s, peer, blocklist) ==
    IF s.fsm[peer] # PeerStateRunning THEN {NoParent(s)}
    ELSE UNION {
        IF P = {} THEN {NoParent(s)}
        ELSE IF ~LoadStream(s, peer) THEN {NoParent(s)}
        ELSE UNION {UNION {{NoParent(ReplaceParent(s, peer, parents[1])),
                            [s |-> ReplaceParent(s, peer, parents[1]), ok |-> TRUE,
                             main |-> parents[1], parents |-> parents,
                             score |-> score]} :
                        parents \in SortSlice(P, score)} : score \in Scores(P)}
        : P \in filterParents(s, peer, blocklist)}

\* NotifyAndFindParent: every outcome of one attempt, for every score the
\* evaluator may give the filtered parents; stream.Send may fail
NotifyAndFindParent(s, peer, blocklist) ==
    IF s.fsm[peer] # PeerStateRunning THEN {NoParent(s)}
    ELSE UNION {
        IF P = {} THEN {NoParent(s)}
        ELSE IF ~LoadStream(s, peer) THEN {NoParent(s)}
        ELSE {NoParent(s)} \cup
             UNION {{[s |-> ReplaceParent(s, peer, parents[1]), ok |-> TRUE,
                      main |-> parents[1], parents |-> parents, score |-> score] :
                        parents \in SortSlice(P, score)} : score \in Scores(P)}
        : P \in filterParents(s, peer, blocklist)}

\* the packets of a PeerPacket stream
Packet(code, main) == [code |-> code, main |-> main]

IdleSched ==
    [pc |-> "idle", n |-> 0, attempts |-> 0, sent |-> <<>>, ret |-> "none",
     blk |-> {}, ctx |-> FALSE, canAll |-> TRUE, canAny |-> FALSE,
     cdnFailed |-> FALSE]

\* ScheduleParent returns on the path named r
Return(p, c, r, s) ==
    /\ sched' = [sched EXCEPT ![p] = [c EXCEPT !.pc = "done", !.ret = r]]
    /\ Install(s)

\* ScheduleParent: the back-to-source branch of the loop
BackToSourceBranch(p, c, s) ==
    IF ~LoadStream(s, p) THEN Return(p, c, "nostream", s)
    ELSE \/ Return(p, c, "senderr", s)
         \/ LET c2 == [c EXCEPT !.sent = Append(@, Packet("SchedNeedBackSource", Nil))]
            IN  IF ~PeerEventCan(s, p, "DownloadFromBackToSource")
                THEN Return(p, c2, "fsmerr", s)
                ELSE LET s1 == PeerEvent(s, p, "DownloadFromBackToSource")
                         s2 == IF s1.taskFsm = "Failed"
                               THEN [s1 EXCEPT !.taskFsm = "Running"] ELSE s1
                     IN  Return(p, c2, "backsource", DeleteParent(s2, p))

\* ScheduleParent: the schedule-failed branch of the loop
ScheduleFailedBranch(p, c, s) ==
    IF ~LoadStream(s, p) THEN Return(p, c, "nostream", s)
    ELSE \/ Return(p, c, "senderr", s)
         \/ Return(p, [c EXCEPT !.sent = Append(@, Packet("SchedTaskStatusError", Nil))],
                   "failed", s)

\* ScheduleParent: one NotifyAndFindParent attempt of the loop
AttemptBranch(p, c, s) ==
    /\ ~filterHangs(s, p, c.blk)
    /\ \E o \in NotifyAndFindParent(s, p, c.blk) :
        LET c2 == [c EXCEPT !.attempts = @ + 1] IN
        IF o.ok
        THEN Return(p, [c2 EXCEPT !.sent = Append(@, Packet("Success", o.main))],
                    "ok", o.s)
        ELSE /\ sched' = [sched EXCEPT ![p] = [c2 EXCEPT !.n = @ + 1]]
             /\ Install(s)

\* the latest seed peer of the task is in Failed
CDNPeerFailed(s) ==
    LET cdnPeer == LoadCDNPeer(s)
    IN  cdnPeer # Nil /\ s.fsm[cdnPeer] = PeerStateFailed

\* ScheduleParent: the condition of the back-to-source branch
\* a loop whose back-to-source branch is never taken
NeedBackToSourceNever(s, n) == FALSE

\* a loop that falls back to the source without counting retries
NeedBackToSourceUncounted(s, n) == CanBackToSource(s)

NeedBackToSource(s, n) ==
    (n >= RetryBackSourceLimit \/ CDNPeerFailed(s)) /\ CanBackToSource(s)

\* ScheduleParent: the condition of the schedule-failed branch
\* a loop that gives up one attempt late
ScheduleFailedLate(n) == n > RetryLimit

ScheduleFailed(n) == n >= RetryLimit

\* ScheduleParent: one iteration of the for loop
ScheduleParentStep(p) ==
    /\ sched[p].pc = "loop"
    /\ LET s == Cur
           c0 == sched[p]
           can == CanBackToSource(s)
           c == [c0 EXCEPT !.canAll = @ /\ can, !.canAny = @ \/ can]
       IN  IF c0.ctx THEN Return(p, c0, "ctx", s)
           ELSE IF NeedBackToSource(s, c.n)
                THEN BackToSourceBranch(p, [c EXCEPT !.cdnFailed = CDNPeerFailed(s)], s)
           ELSE IF ScheduleFailed(c.n) THEN ScheduleFailedBranch(p, c, s)
           ELSE AttemptBranch(p, c, s)
    /\ UNCHANGED slow

\* the service calls ScheduleParent for a peer
ScheduleParentCall(p, blocklist) ==
    /\ sched[p].pc = "idle"
    /\ Cardinality({q \in Peers : sched[q].pc # "idle"}) < MaxLoops
    /\ sched' = [sched EXCEPT ![p] = [IdleSched EXCEPT !.pc = "loop", !.blk = blocklist]]
    /\ UNCHANGED <<eventVars, loopVars, auxVars, driverVars, peers, fsm, updateAt, parent, children, load, hostPeers, stream, bts,
                   taskFsm, failedCount, slow>>

\* ScheduleParent has returned to its caller
ScheduleParentReturn(p) ==
    /\ sched[p].pc = "done"
    /\ sched' = [sched EXCEPT ![p] = IdleSched]
    /\ UNCHANGED <<eventVars, loopVars, auxVars, driverVars, peers, fsm, updateAt, parent, children, load, hostPeers, stream, bts,
                   taskFsm, failedCount, slow>>

\* the context of the invocation is cancelled
CancelContext(p) ==
    /\ sched[p].pc = "loop"
    /\ ~sched[p].ctx
    /\ sched' = [sched EXCEPT ![p].ctx = TRUE]
    /\ UNCHANGED <<eventVars, loopVars, auxVars, driverVars, peers, fsm, updateAt, parent, children, load, hostPeers, stream, bts,
                   taskFsm, failedCount, slow>>

\* ScheduleParent invocations that run side by side, each in the goroutine of
\* its peer's report stream
MaxRacingLoops == 2

\* the service calls ScheduleParent for a peer while other invocations run
ScheduleParentConcurrent(p, blocklist) ==
    /\ sched[p].pc = "idle"
    /\ Cardinality({q \in Peers : sched[q].pc # "idle"}) < MaxRacingLoops
    /\ sched' = [sched EXCEPT ![p] = [IdleSched EXCEPT !.pc = "loop", !.blk = blocklist]]
    /\ UNCHANGED <<eventVars, loopVars, auxVars, driverVars, peers, fsm, updateAt,
                   parent, children, load, hostPeers, stream, bts, taskFsm,
                   failedCount, slow>>

\* ScheduleParent, one iteration up to the condition of its back-to-source
\* branch: peer.Task.CanBackToSource() is read here, the branch is entered in
\* a later step
ScheduleParentCondition(p) ==
    /\ sched[p].pc = "loop"
    /\ LET s == Cur
           c0 == sched[p]
           can == CanBackToSource(s)
           c == [c0 EXCEPT !.canAll = @ /\ can, !.canAny = @ \/ can]
       IN  IF c0.ctx THEN Return(p, c0, "ctx", s)
           ELSE IF NeedBackToSource(s, c.n)
                THEN /\ sched' = [sched EXCEPT ![p] =
                            [c EXCEPT !.pc = "backsource",
                                      !.cdnFailed = CDNPeerFailed(s)]]
                     /\ Install(s)
           ELSE IF ScheduleFailed(c.n) THEN ScheduleFailedBranch(p, c, s)
           ELSE AttemptBranch(p, c, s)
    /\ UNCHANGED slow

\* ScheduleParent, the back-to-source branch entered on the condition read
\* before
ScheduleParentBackToSource(p) ==
    /\ sched[p].pc = "backsource"
    /\ BackToSourceBranch(p, sched[p], Cur)
    /\ UNCHANGED slow

(* ---------------------------------------------------------- environment *)
\* the service fires an event on a peer's FSM
FirePeerEvent(p, e) ==
    /\ PeerEventCan(Cur, p, e)
    /\ (e = "DownloadFailed" /\ fsm[p] = PeerStateBackToSource)
            => failedCount < MaxFailedCount
    /\ Install(PeerEvent(Cur, p, e))
    /\ UNCHANGED <<slow, sched>>

StoreStream(p) ==
    /\ ~stream[p]
    /\ stream' = [stream EXCEPT ![p] = TRUE]
    /\ UNCHANGED <<eventVars, loopVars, auxVars, driverVars, peers, fsm, updateAt, parent, children, load, hostPeers, bts, taskFsm,
                   failedCount, slow, sched>>

DeleteStream(p) ==
    /\ stream[p]
    /\ stream' = [stream EXCEPT ![p] = FALSE]
    /\ UNCHANGED <<eventVars, loopVars, auxVars, driverVars, peers, fsm, updateAt, parent, children, load, hostPeers, bts, taskFsm,
                   failedCount, slow, sched>>

\* Task FSM events
TaskEventSrc(e) ==
    CASE e = "Download" -> {"Pending", "Failed", "Succeeded"}
      [] e = "DownloadSucceeded" -> {"Running"}
      [] e = "DownloadFailed" -> {"Running"}
      [] e = "Leave" -> {"Pending", "Running", "Failed", "Succeeded"}

TaskEventDst(e) ==
    CASE e = "Download" -> "Running"
      [] e = "DownloadSucceeded" -> "Succeeded"
      [] e = "DownloadFailed" -> "Failed"
      [] e = "Leave" -> "Leave"

FireTaskEvent(e) ==
    /\ taskFsm \in TaskEventSrc(e)
    /\ taskFsm' = TaskEventDst(e)
    /\ UNCHANGED <<eventVars, loopVars, auxVars, driverVars, peers, fsm, updateAt, parent, children, load, hostPeers, stream, bts,
                   failedCount, slow, sched>>

(* ---------------------------------------------- event handlers' state *)
PeerStatusWaiting == "Waiting"
PeerStatusRunning == "Running"
PeerStatusZombie == "Zombie"
PeerStatusFail == "Fail"
PeerStatusSuccess == "Success"

\* supervisor Task.status
TaskStatusWaiting == "Waiting"
TaskStatusSeeding == "Seeding"
TaskStatusSuccess == "Succeeded"

WorkerNum == 2
Workers == 0..(WorkerNum - 1)
MaxQueue == 2
MaxReschedule == 1
NoEvent == [kind |-> "none"]

\* hash keys: the task's id, or a peer's id
TaskKey == <<"task", 1>>
PeerKey(p) == <<"peer", p>>
HashKeys == {TaskKey} \cup {PeerKey(p) : p \in Peers}

NoEvents ==
    /\ status = [p \in Peers |-> PeerStatusWaiting]
    /\ leave = {}
    /\ rsQueue = {}
    /\ panicked = FALSE

NoLoop ==
    /\ hashOf = [k \in HashKeys |-> 0]
    /\ queues = [w \in Workers |-> <<>>]
    /\ applying = [w \in Workers |-> NoEvent]

\* the cleanupPeers goroutine waits for its ticker
IdleGC == [pc |-> "idle", peer |-> Nil, empty |-> FALSE]

\* no StartSeedTask invocation is running
IdleSeed ==
    [pc |-> "idle", ret |-> "none", cdnPeer |-> Nil, done |-> FALSE,
     found |-> "none", task |-> "none"]

\* every host is stored, nothing runs beside the events
NoDriver ==
    /\ hosts = Peers
    /\ gc = IdleGC
    /\ seed = IdleSeed

(* ------------------------------------------- the parts beside the scheduler,
   before any of them is used *)
\* no task id has been asked for
NoTaskID ==
    [url |-> <<>>, filter |-> {}, meta |-> <<>>, bizID |-> <<>>,
     called |-> FALSE, taskID |-> <<>>]

\* no call has been made: for each call where it is, the cause its retry
\* function was given, the err of its last attempt, its attempts and what it
\* returned
IdleClient ==
    [call \in {"register", "report"} |->
        [pc |-> "idle", cause |-> "none", err |-> "none", attempts |-> 0,
         ret |-> "none"]]

\* goroutines that call get, and the read locks the model counts
NumGetters == 3
Getters == 1..NumGetters
\* newEvaluatorFactory: nothing registered, nothing cached, the lock free;
\* readers counts the read locks held on ef.lock
newEvaluatorFactory ==
    [readers |-> 0, evaluators |-> {}, cache |-> "none",
     get |-> [g \in Getters |-> [pc |-> "idle", ret |-> "none"]]]

\* the channels WatchSeedProgress can make for the task
NumChans == 3
Chans == 1..NumChans

\* NewManager and InitSeedProgress: an empty subscriber list for the task;
\* subs is the list, closed counts the close calls on each channel, watcher is
\* the goroutine WatchSeedProgress starts for each channel
NewManager ==
    [subs |-> <<>>, closed |-> [c \in Chans |-> 0],
     watcher |-> [c \in Chans |-> "none"], done |-> FALSE, published |-> FALSE]

\* NewPeer of both generations: created now, no piece cost recorded
NoPeerData ==
    /\ now = 0
    /\ updateAt = [p \in Peers |-> 0]
    /\ pieceCosts = [p \in Peers |-> <<>>]
    /\ costHistory = [p \in Peers |-> <<>>]
    /\ finishedNum = [p \in Peers |-> 0]

\* nothing but the scheduler runs
NoAux ==
    /\ NoPeerData
    /\ idgen = NoTaskID
    /\ rpc = IdleClient
    /\ factory = newEvaluatorFactory
    /\ progress = NewManager

EmptyTree ==
    /\ parent = [p \in Peers |-> Nil]
    /\ children = [p \in Peers |-> {}]
    /\ load = [p \in Peers |-> 0]

\* the scheduler with its environment: the seed peer is downloading, the other
\* peers are about to register
(* -------------------------------------------------------- specification *)
Init ==
    /\ peers = Peers
    /\ fsm = [p \in Peers |-> IF IsCDN(p) THEN PeerStateRunning ELSE PeerStatePending]
    /\ EmptyTree
    /\ hostPeers = Peers
    /\ stream = [p \in Peers |-> FALSE]
    /\ bts = {}
    /\ taskFsm = "Running"
    /\ failedCount = 0
    /\ slow = {}
    /\ sched = [p \in Peers |-> IdleSched]
    /\ NoEvents
    /\ NoLoop
    /\ NoDriver
    /\ NoAux

\* the events the service fires while peers are being scheduled
ServiceEvents(p) ==
    IF IsCDN(p) THEN {"DownloadSucceeded", "DownloadFailed"}
    ELSE {"RegisterNormal", "Download", "DownloadSucceeded", "DownloadFailed", "Leave"}

Next ==
    \/ \E p \in Peers : \E e \in ServiceEvents(p) : FirePeerEvent(p, e)
    \/ \E e \in {"DownloadFailed"} : FireTaskEvent(e)
    \/ \E p \in Peers \ SeedPeers : StoreStream(p)
    \/ \E p \in Peers \ SeedPeers : DeleteStream(p)
    \/ \E p \in Peers \ SeedPeers, b \in {{}, SeedPeers} : ScheduleParentCall(p, b)
    \/ \E p \in Peers : ScheduleParentStep(p)
    \/ \E p \in Peers : CancelContext(p)
    \/ \E p \in Peers : ScheduleParentReturn(p)

Spec == Init /\ [][Next]_vars

\* the events that reach a peer while it is being scheduled: registration and
\* download start, a failure report, the peer leaving
RetryEvents(p) ==
    IF IsCDN(p) THEN {"DownloadFailed"}
    ELSE {"RegisterNormal", "Download", "DownloadFailed", "Leave"}

NextRetry ==
    \/ \E p \in Peers : \E e \in RetryEvents(p) : FirePeerEvent(p, e)
    \/ \E p \in Peers \ SeedPeers : StoreStream(p)
    \/ \E p \in Peers \ SeedPeers : DeleteStream(p)
    \/ \E p \in Peers \ SeedPeers, b \in {{}, SeedPeers} : ScheduleParentCall(p, b)
    \/ \E p \in Peers : ScheduleParentStep(p)
    \/ \E p \in Peers : CancelContext(p)
    \/ \E p \in Peers : ScheduleParentReturn(p)

\* the ScheduleParent loop, once entered, takes its next iteration (the sleep
\* between two iterations ends)
FairSpec ==
    /\ Init /\ [][NextRetry]_vars
    /\ \A p \in Peers : WF_vars(ScheduleParentStep(p))

\* the peer FSM alone, every event fired by the service in any order, with
\* single scheduling attempts building the tree
InitFSM ==
    /\ peers = Peers
    /\ fsm = [p \in Peers |-> PeerStatePending]
    /\ EmptyTree
    /\ hostPeers = Peers
    /\ stream = [p \in Peers |-> TRUE]
    /\ bts = {}
    /\ taskFsm = "Running"
    /\ failedCount = 0
    /\ slow = {}
    /\ sched = [p \in Peers |-> IdleSched]
    /\ NoEvents
    /\ NoLoop
    /\ NoDriver
    /\ NoAux

\* the service calls NotifyAndFindParent once
NotifyAndFindParentCall(p, blocklist) ==
    /\ ~filterHangs(Cur, p, blocklist)
    /\ \E o \in NotifyAndFindParent(Cur, p, blocklist) : o.ok /\ Install(o.s)
    /\ UNCHANGED <<slow, sched>>

\* the evaluator's view of a peer's piece cost crosses its threshold
ObservePieceCost(p) ==
    /\ slow' = IF p \in slow THEN slow \ {p} ELSE slow \cup {p}
    /\ UNCHANGED <<eventVars, loopVars, auxVars, driverVars, peers, fsm, updateAt, parent, children, load, hostPeers, stream, bts,
                   taskFsm, failedCount, sched>>

NextFSM ==
    \/ \E p \in Peers, e \in PeerEvents : FirePeerEvent(p, e)
    \/ \E p \in Peers : ObservePieceCost(p)
    \/ \E p \in Peers \ SeedPeers : NotifyAndFindParentCall(p, {})

SpecFSM == InitFSM /\ [][NextFSM]_vars

(* ------------------------------------------------- event handlers (core) *)
\* the world the event handlers act on: the tree and registries, and the
\* handlers' own state
\* told: the code each peer's channel is closed with while one event is applied
CurEv ==
    [status |-> status, leave |-> leave, rsQueue |-> rsQueue,
     panicked |-> panicked, told |-> [p \in Peers |-> "none"],
     hosts |-> hosts] @@ Cur

\* the world becomes w
InstallWorld(w) ==
    /\ peers' = w.peers
    /\ parent' = w.parent
    /\ children' = w.children
    /\ load' = w.load
    /\ hostPeers' = w.hostPeers
    /\ bts' = w.bts
    /\ taskFsm' = w.taskFsm
    /\ status' = w.status
    /\ leave' = w.leave
    /\ rsQueue' = w.rsQueue
    /\ panicked' = w.panicked
    /\ hosts' = w.hosts
    /\ UNCHANGED <<fsm, updateAt, stream, failedCount, slow, sched, loopVars, auxVars>>

InstallEv(w) == InstallWorld(w) /\ UNCHANGED <<gc, seed>>

rsPeer(peer, blankParents) == [peer |-> peer, blankParents |-> blankParents]

\* peerManager.Delete
Delete(w, peerID) ==
    IF peerID \in w.peers
    THEN LET w1 == [w EXCEPT !.hostPeers = @ \ {peerID}]
             w2 == ReplaceParent(w1, peerID, Nil)
         IN  [w2 EXCEPT !.peers = @ \ {peerID}]
    ELSE w

\* Peer.Touch
Touch(w, p) ==
    IF w.status[p] = PeerStatusZombie /\ p \notin w.leave
    THEN [w EXCEPT !.status[p] = PeerStatusRunning]
    ELSE w

\* sched.ScheduleParent(peer, blankParents): one scheduling attempt
SchedScheduleParent(w, peer, blankParents) ==
    NotifyAndFindParent(w, peer, blankParents)

\* sched.ScheduleChildren(peer, blankChildren): peers without a parent, for
\* which peer passes the parent filter, may be attached under peer
ScheduleChildren(w, peer, blankChildren) ==
    {w} \cup
    {ReplaceParent(w, c, peer) :
        c \in {c \in (w.peers \ blankChildren) \ SeedPeers :
                  /\ w.parent[c] = Nil
                  /\ ~filterHangs(w, c, {})
                  /\ peer \in Surviving(w, c, {})}}

NeedClientBackSource(w) == CanBackToSource(w)

\* peer.CloseChannel(code) is called
CloseChannel(w, p, code) == [w EXCEPT !.told[p] = code]

\* the peer is told to download from the source; CloseChannel may fail
CloseChannelBackSource(w, p) ==
    LET w1 == CloseChannel(w, p, "SchedNeedBackSource")
    IN  {w1, [w1 EXCEPT !.bts = @ \cup {p}]}

removePeerFromCurrentTree(w, peer) ==
    LET par == w.parent[peer]
        w1 == ReplaceParent(w, peer, Nil)
    IN  IF par # Nil THEN ScheduleChildren(w1, par, {peer}) ELSE {w1}

\* the outcome of a scheduling attempt without a parent: back to source, or
\* rescheduled later
WithoutParent(w, peer, blankParents) ==
    IF NeedClientBackSource(w) /\ peer \notin w.bts
    THEN CloseChannelBackSource(w, peer)
    ELSE {[w EXCEPT !.rsQueue = @ \cup {rsPeer(peer, blankParents)}]}

reScheduleParentEvent(w0, rs) ==
    LET w == [w0 EXCEPT !.rsQueue = @ \ {rs}]
        peer == rs.peer
        oldParent == w.parent[peer]
    IN  IF w.taskFsm = "Failed" THEN {CloseChannel(w, peer, "SchedTaskStatusError")}
        ELSE IF oldParent # Nil /\ oldParent \notin rs.blankParents THEN {w}
        ELSE UNION {IF o.ok THEN {o.s}
                    ELSE WithoutParent(o.s, peer, rs.blankParents) :
                        o \in SchedScheduleParent(w, peer, rs.blankParents)}

startReportPieceResultEvent(w, peer) ==
    IF w.parent[peer] # Nil THEN {w}
    ELSE IF peer \in w.bts THEN {w}
    ELSE UNION {IF o.ok THEN {o.s} ELSE WithoutParent(o.s, peer, {}) :
                    o \in SchedScheduleParent(w, peer, {})}

peerDownloadPieceSuccessEvent(w, peer, DstPid) ==
    IF peer \in w.bts THEN w
    ELSE IF DstPid \in w.peers
    THEN LET oldParent == w.parent[peer]
             w1 == IF DstPid # peer /\ (oldParent = Nil \/ oldParent # DstPid)
                   THEN ReplaceParent(w, peer, DstPid)
                   ELSE w
         IN  Touch(w1, DstPid)
    ELSE [w EXCEPT !.panicked = TRUE]

PieceFailCodes == {"ClientWaitPieceReady", "PeerTaskNotFound", "CdnError", "ClientPieceDownloadFail"}

\* a handler that queues the peer without naming the blamed source
peerDownloadPieceFailEventNoBlank(w, peer, DstPid, code) ==
    IF peer \in w.bts THEN w
    ELSE IF code = "ClientWaitPieceReady" THEN w
    ELSE LET w1 == IF code \in {"PeerTaskNotFound", "CdnError"}
                   THEN Delete(w, DstPid) ELSE w
         IN  [w1 EXCEPT !.rsQueue = @ \cup {rsPeer(peer, {})}]

peerDownloadPieceFailEvent(w, peer, DstPid, code) ==
    IF peer \in w.bts THEN w
    ELSE IF code = "ClientWaitPieceReady" THEN w
    ELSE LET w1 == IF code \in {"PeerTaskNotFound", "CdnError"}
                   THEN Delete(w, DstPid) ELSE w
         IN  [w1 EXCEPT !.rsQueue = @ \cup {rsPeer(peer, {DstPid})}]

\* handleCDNSeedTaskFail: the Range over the task's peers while the task
\* needs client back-to-source, in any order of the list
\* a Range that does not ask again whether back-to-source is still needed
RECURSIVE SeedFailRangeUnchecked(_, _)
SeedFailRangeUnchecked(w, todo) ==
    IF todo = {} THEN {w}
    ELSE UNION {
            IF peer \notin w.bts
            THEN UNION {SeedFailRangeUnchecked(w2, todo \ {peer}) :
                           w2 \in CloseChannelBackSource(w, peer)}
            ELSE SeedFailRangeUnchecked(w, todo \ {peer})
            : peer \in todo}

RECURSIVE SeedFailRange(_, _)
SeedFailRange(w, todo) ==
    IF todo = {} THEN {w}
    ELSE UNION {
            IF NeedClientBackSource(w)
            THEN IF peer \notin w.bts
                 THEN UNION {SeedFailRange(w2, todo \ {peer}) :
                                w2 \in CloseChannelBackSource(w, peer)}
                 ELSE SeedFailRange(w, todo \ {peer})
            ELSE {w}
            : peer \in todo}

\* handleCDNSeedTaskFail: the Range that closes every peer's channel with
\* SchedTaskStatusError
RECURSIVE SeedFailCloseAll(_, _)
SeedFailCloseAll(w, todo) ==
    IF todo = {} THEN w
    ELSE LET peer == CHOOSE peer \in todo : TRUE
         IN  SeedFailCloseAll(CloseChannel(w, peer, "SchedTaskStatusError"),
                              todo \ {peer})

handleCDNSeedTaskFail(w) ==
    IF NeedClientBackSource(w)
    THEN SeedFailRange(w, w.peers)
    ELSE {SeedFailCloseAll(w, w.peers)}

\* taskSeedFailEvent.apply
taskSeedFailEvent(w) == handleCDNSeedTaskFail(w)

\* the loop over the children of a failed or left peer: each is scheduled
\* with the peer in its blank parents; requeue names the peer rescheduled later
RECURSIVE RescheduleChildren(_, _, _, _)
RescheduleChildren(w, todo, peer, requeueSelf) ==
    IF todo = {} THEN {w}
    ELSE UNION {UNION {
            RescheduleChildren(
                IF o.ok THEN o.s
                ELSE [o.s EXCEPT !.rsQueue = @ \cup
                        {rsPeer(IF requeueSelf THEN peer ELSE child, {peer})}],
                todo \ {child}, peer, requeueSelf) :
            o \in SchedScheduleParent(w, child, {peer})} : child \in todo}

peerDownloadSuccessEvent(w, peer) ==
    LET w1 == [w EXCEPT !.status[peer] = PeerStatusSuccess]
    IN  UNION {ScheduleChildren(w2, peer, {}) :
                  w2 \in removePeerFromCurrentTree(w1, peer)}

peerDownloadFailEvent(w, peer) ==
    LET w1 == [w EXCEPT !.status[peer] = PeerStatusFail]
    IN  IF peer \in w1.bts /\ w1.taskFsm # "Succeeded"
        THEN handleCDNSeedTaskFail([w1 EXCEPT !.taskFsm = "Failed"])
        ELSE UNION {RescheduleChildren(w2, w2.children[peer], peer, TRUE) :
                       w2 \in removePeerFromCurrentTree(w1, peer)}

peerLeaveEvent(w, peer) ==
    LET w1 == [w EXCEPT !.leave = @ \cup {peer}]
    IN  {Delete(w3, peer) :
            w3 \in UNION {RescheduleChildren(w2, w2.children[peer], peer, FALSE) :
                             w2 \in removePeerFromCurrentTree(w1, peer)}}

\* cleanupPeers with the seed peers exempt from the peer TTL
cleanupPeerSparesSeeds(w, peer, idle, expired, connected) ==
    LET w1 == IF idle /\ w.status[peer] \notin {PeerStatusSuccess, PeerStatusFail}
                   /\ ~IsCDN(peer)
              THEN [w EXCEPT !.leave = IF connected THEN @ ELSE @ \cup {peer},
                             !.status[peer] = PeerStatusZombie]
              ELSE w
    IN  IF peer \in w1.leave \/ w1.status[peer] = PeerStatusFail
            \/ (expired /\ ~IsCDN(peer))
        THEN Delete(w1, peer) ELSE w1

\* one pass of cleanupPeers over one peer
cleanupPeer(w, peer, idle, expired, connected) ==
    LET w1 == IF idle /\ w.status[peer] \notin {PeerStatusSuccess, PeerStatusFail}
                   /\ ~IsCDN(peer)
              THEN [w EXCEPT !.leave = IF connected THEN @ ELSE @ \cup {peer},
                             !.status[peer] = PeerStatusZombie]
              ELSE w
    IN  IF peer \in w1.leave \/ w1.status[peer] = PeerStatusFail \/ expired
        THEN Delete(w1, peer) ELSE w1

\* the host of the deleted peer has no peer left: it is deleted
cleanupHost(w, peer, empty) ==
    IF empty THEN [w EXCEPT !.hosts = @ \ {peer}] ELSE w

\* the task has no peer left: its status is set to Waiting
cleanupTask(w) ==
    IF w.peers = {} THEN [w EXCEPT !.taskFsm = TaskStatusWaiting] ELSE w

\* one pass of cleanupPeers over one peer, with what follows the deletion
cleanupPeers(w, peer, idle, expired, connected) ==
    LET w1 == cleanupPeer(w, peer, idle, expired, connected)
    IN  IF peer \in w1.peers THEN w1
        ELSE cleanupTask(cleanupHost(w1, peer, peer \notin w1.hostPeers))

\* no walk up the tree is endless
Schedulable(w) == \A c \in Peers : ~Endless(w, c)

\* the worlds an applied event can leave, of the outcomes of its handler
Applied(outcomes) ==
    IF ~panicked /\ Schedulable(CurEv)
    THEN {w \in outcomes : Cardinality(w.rsQueue) <= MaxReschedule}
    ELSE {}

\* an event is applied: the world becomes one of the handler's outcomes
Apply(outcomes) == \E w \in Applied(outcomes) : InstallEv(w)

Clients == Peers \ SeedPeers

InitEvents ==
    /\ peers = Peers
    /\ fsm = [p \in Peers |-> PeerStateRunning]
    /\ EmptyTree
    /\ hostPeers = Peers
    /\ stream = [p \in Peers |-> TRUE]
    /\ bts = {}
    /\ taskFsm = "Running"
    /\ failedCount = 0
    /\ slow = {}
    /\ sched = [p \in Peers |-> IdleSched]
    /\ status = [p \in Peers |-> PeerStatusRunning]
    /\ leave = {}
    /\ rsQueue = {}
    /\ panicked = FALSE
    /\ NoLoop
    /\ NoDriver
    /\ NoAux

\* an event carries the peer it was made for: it may be applied after the
\* peer was deleted from the registries
NextEvents ==
    \/ \E rs \in rsQueue : Apply(reScheduleParentEvent(CurEv, rs))
    \/ \E p \in Clients : Apply(startReportPieceResultEvent(CurEv, p))
    \/ \E p \in Clients, d \in Peers :
            Apply({peerDownloadPieceSuccessEvent(CurEv, p, d)})
    \/ \E p \in Clients, d \in Peers, c \in PieceFailCodes :
            Apply({peerDownloadPieceFailEvent(CurEv, p, d, c)})
    \/ \E p \in Clients : Apply(peerDownloadSuccessEvent(CurEv, p))
    \/ \E p \in Clients : Apply(peerDownloadFailEvent(CurEv, p))
    \/ \E p \in Clients : Apply(peerLeaveEvent(CurEv, p))
    \/ Apply(taskSeedFailEvent(CurEv))
    \/ \E p \in peers, idle, expired, connected \in BOOLEAN :
            Apply({cleanupPeers(CurEv, p, idle, expired, connected)})

SpecEvents == InitEvents /\ [][NextEvents]_vars

(* ------------------------------------------------- peer GC goroutine *)
\* cleanupPeers runs in a goroutine of its own (go m.cleanupPeers() in
\* NewManager) and calls m.Delete, hostManager.Delete and Task.SetStatus
\* itself, one after the other

\* the pass reaches a peer: it is marked and, when due, deleted
cleanupPeersVisit(p, idle, expired, connected) ==
    /\ gc.pc = "idle"
    /\ p \in peers
    /\ LET w == cleanupPeer(CurEv, p, idle, expired, connected)
       IN  /\ InstallWorld(w)
           /\ gc' = IF p \in w.peers THEN IdleGC
                     ELSE [pc |-> "deleted", peer |-> p, empty |-> FALSE]
    /\ UNCHANGED seed

\* peer.Host.GetPeerTaskNum() == 0 is evaluated
cleanupPeersHostNum ==
    /\ gc.pc = "deleted"
    /\ gc' = [gc EXCEPT !.pc = "host", !.empty = gc.peer \notin hostPeers]
    /\ UNCHANGED <<peers, fsm, updateAt, parent, children, load, hostPeers, stream, bts,
                   taskFsm, failedCount, slow, sched, eventVars, loopVars, auxVars,
                   hosts, seed>>

\* the host is deleted if it was found empty, the task set to Waiting if it
\* has no peer left
cleanupPeersFinish ==
    /\ gc.pc = "host"
    /\ InstallWorld(cleanupTask(cleanupHost(CurEv, gc.peer, gc.empty)))
    /\ gc' = IdleGC
    /\ UNCHANGED seed

(* ------------------------------------------------------------ event loop *)
\* the events of package core keyed by the peer's id
CorePeerEvents ==
    {"peerScheduleParentEvent", "peerDownloadPieceSuccessEvent",
     "peerDownloadPieceFailEvent", "peerReplaceParentEvent",
     "peerDownloadSuccessEvent", "peerDownloadFailEvent", "peerLeaveEvent"}

\* the events of the supervisor's core, all keyed by the task's id
SupervisorEvents ==
    {"reScheduleParentEvent", "startReportPieceResultEvent",
     "peerDownloadPieceSuccessEvent", "peerDownloadPieceFailEvent",
     "taskSeedFailEvent", "peerDownloadSuccessEvent", "peerDownloadFailEvent",
     "peerLeaveEvent"}

\* what the worker group receives
WorkerGroupEvents == {"ReceiveJob", "ReceiveUpdatePieceResult"}

Events ==
    [pkg : {"core"}, kind : CorePeerEvents \cup {"taskSeedFailEvent"}, peer : Clients]
        \cup [pkg : {"supervisor"}, kind : SupervisorEvents, peer : Clients]
        \cup [pkg : {"schedule_worker"}, kind : WorkerGroupEvents, peer : Clients]

hashKey(e) ==
    CASE e.pkg = "core" ->
            IF e.kind = "taskSeedFailEvent" THEN TaskKey ELSE PeerKey(e.peer)
      [] e.pkg = "supervisor" -> TaskKey
      [] e.pkg = "schedule_worker" ->
            IF e.kind = "ReceiveJob" THEN TaskKey ELSE PeerKey(e.peer)

RECURSIVE Queued(_)
Queued(ws) ==
    IF ws = {} THEN 0
    ELSE LET w == CHOOSE w \in ws : TRUE
         IN  Len(queues[w]) + Queued(ws \ {w})

\* the events queued or being applied
InFlight == Queued(Workers) + Cardinality({w \in Workers : applying[w] # NoEvent})

\* an event is routed to queues[hash(key) mod WorkerNum]
send(e) ==
    /\ InFlight < MaxQueue
    /\ queues' = [queues EXCEPT ![hashOf[hashKey(e)]] = Append(@, e)]
    /\ UNCHANGED <<peers, fsm, updateAt, parent, children, load, hostPeers, stream, bts,
                   taskFsm, failedCount, slow, sched, eventVars, driverVars,
                   hashOf, auxVars, applying>>

\* a worker takes the event at the head of its queue and starts applying it
workerTake(w) ==
    /\ applying[w] = NoEvent
    /\ queues[w] # <<>>
    /\ applying' = [applying EXCEPT ![w] = Head(queues[w])]
    /\ queues' = [queues EXCEPT ![w] = Tail(@)]
    /\ UNCHANGED <<peers, fsm, updateAt, parent, children, load, hostPeers, stream, bts,
                   taskFsm, failedCount, slow, sched, eventVars, driverVars,
                   hashOf, auxVars>>

\* the worker has applied its event
workerApplied(w) ==
    /\ applying[w] # NoEvent
    /\ applying' = [applying EXCEPT ![w] = NoEvent]
    /\ UNCHANGED <<peers, fsm, updateAt, parent, children, load, hostPeers, stream, bts,
                   taskFsm, failedCount, slow, sched, eventVars, driverVars,
                   hashOf, auxVars, queues>>

InitLoop ==
    /\ peers = Peers
    /\ fsm = [p \in Peers |-> PeerStateRunning]
    /\ EmptyTree
    /\ hostPeers = Peers
    /\ stream = [p \in Peers |-> TRUE]
    /\ bts = {}
    /\ taskFsm = "Running"
    /\ failedCount = 0
    /\ slow = {}
    /\ sched = [p \in Peers |-> IdleSched]
    /\ NoEvents
    /\ hashOf \in [HashKeys -> Workers]
    /\ queues = [w \in Workers |-> <<>>]
    /\ applying = [w \in Workers |-> NoEvent]
    /\ NoDriver
    /\ NoAux

\* the peer GC of the event loop's process: its pass finds the seed peer idle
\* longer than the peer TTL
NextLoop ==
    \/ \E e \in Events : send(e)
    \/ \E w \in Workers : workerTake(w)
    \/ \E w \in Workers : workerApplied(w)
    \/ \E p \in SeedPeers : cleanupPeersVisit(p, FALSE, TRUE, TRUE)
    \/ cleanupPeersHostNum
    \/ cleanupPeersFinish

SpecLoop == InitLoop /\ [][NextLoop]_vars

(* ------------------------------------------------------ seed peer driver *)
\* types.NewPeer: a fresh record for the id (no peer has an edge where peers
\* are registered)
NewPeer(w, p) == [w EXCEPT !.status[p] = PeerStatusWaiting, !.leave = @ \ {p}]

\* a peer manager that does not store the peer in its host
AddSkipsHost(w, peer) == [w EXCEPT !.peers = @ \cup {peer}]

\* peerManager.Add
Add(w, peer) ==
    [w EXCEPT !.hostPeers = @ \cup {peer}, !.peers = @ \cup {peer}]

\* initCdnPeer up to NewPeer: the peer is stored, or it is new and its host
\* is stored, or neither
initCdnPeerLookup(w, p) ==
    IF p \in w.peers THEN "stored"
    ELSE IF p \in w.hosts THEN "new" ELSE "ErrInitCDNPeerFail"

\* initCdnPeer from NewPeer on
initCdnPeerStore(w, p, found) ==
    LET w1 == IF found = "new" THEN NewPeer(w, p) ELSE w
    IN  Add([w1 EXCEPT !.status[p] = PeerStatusRunning], p)

\* initCdnPeer, uninterrupted
initCdnPeer(w, p) ==
    LET found == initCdnPeerLookup(w, p)
    IN  IF found = "ErrInitCDNPeerFail" THEN w
        ELSE initCdnPeerStore(w, p, found)

\* what ObtainSeeds and stream.Recv fail with
SeedFailures == {"CdnTaskRegistryFail", "CdnTaskDownloadFail", "DfError", "error"}

\* the error a failure is wrapped into
SeedError(failure) ==
    CASE failure = "CdnTaskRegistryFail" -> "ErrCDNRegisterFail"
      [] failure = "CdnTaskDownloadFail" -> "ErrCDNDownloadFail"
      [] failure = "DfError" -> "ErrCDNUnknown"
      [] failure = "error" -> "ErrCDNInvokeFail"

\* StartSeedTask returns ret
ReturnSeed(ret) == [seed EXCEPT !.pc = "done", !.ret = ret, !.task = taskFsm]

SeedWorldUnchanged ==
    UNCHANGED <<peers, fsm, updateAt, parent, children, load, hostPeers, stream, bts,
                taskFsm, failedCount, slow, sched, eventVars, loopVars, auxVars,
                hosts, gc>>

\* StartSeedTask is called: the client is nil, or ObtainSeeds fails, or it
\* returns a stream
StartSeedTask(obtain) ==
    /\ seed.pc \in {"idle", "done"}
    /\ seed' = CASE obtain = "nil" -> ReturnSeed("ErrCDNRegisterFail")
                 [] obtain = "stream" -> [IdleSeed EXCEPT !.pc = "recv"]
                 [] OTHER -> ReturnSeed(SeedError(obtain))
    /\ SeedWorldUnchanged

\* receivePiece: what stream.Recv returns
RecvResults == {"EOF", "nil", "piece", "done"} \cup SeedFailures

\* receivePiece: stream.Recv returns
receivePiece(r) ==
    /\ seed.pc = "recv"
    /\ seed' = CASE r = "EOF" ->
                        ReturnSeed(IF taskFsm = TaskStatusSuccess
                                   THEN "OK" ELSE "EOF")
                 [] r \in SeedFailures -> ReturnSeed(SeedError(r))
                 [] r = "nil" -> seed
                 [] OTHER ->
                        [seed EXCEPT !.done = (r = "done"),
                                     !.pc = IF seed.cdnPeer = Nil
                                            THEN "init" ELSE "piece"]
    /\ SeedWorldUnchanged

\* once.Do: initCdnPeer looks the peer up, and its host if it is new
initCdnPeerGet(p) ==
    /\ seed.pc = "init"
    /\ LET found == initCdnPeerLookup(CurEv, p)
       IN  seed' = IF found = "ErrInitCDNPeerFail"
                   THEN ReturnSeed("ErrInitCDNPeerFail")
                   ELSE [seed EXCEPT !.pc = "store", !.found = found,
                                     !.cdnPeer = p]
    /\ SeedWorldUnchanged

\* once.Do: initCdnPeer sets the peer Running and adds it
initCdnPeerAdd ==
    /\ seed.pc = "store"
    /\ InstallWorld(initCdnPeerStore(CurEv, seed.cdnPeer, seed.found))
    /\ seed' = [seed EXCEPT !.pc = "piece"]
    /\ UNCHANGED gc

\* receivePiece: the piece is taken in; the last one ends the task
receivedPiece ==
    /\ seed.pc = "piece"
    /\ LET w1 == Touch([CurEv EXCEPT !.taskFsm = TaskStatusSeeding], seed.cdnPeer)
           w2 == [w1 EXCEPT !.taskFsm = TaskStatusSuccess,
                            !.status[seed.cdnPeer] = PeerStatusSuccess]
       IN  IF seed.done
           THEN /\ InstallWorld(w2)
                /\ seed' = [seed EXCEPT !.pc = "done", !.ret = "OK",
                                        !.task = w2.taskFsm]
           ELSE /\ InstallWorld(w1)
                /\ seed' = [seed EXCEPT !.pc = "recv"]
    /\ UNCHANGED gc

\* the clients are registered, the seed peer is not yet
InitSeed ==
    /\ peers = Clients
    /\ fsm = [p \in Peers |-> PeerStateRunning]
    /\ EmptyTree
    /\ hostPeers = Clients
    /\ stream = [p \in Peers |-> TRUE]
    /\ bts = {}
    /\ taskFsm = "Running"
    /\ failedCount = 0
    /\ slow = {}
    /\ sched = [p \in Peers |-> IdleSched]
    /\ status = [p \in Peers |->
                    IF p \in Clients THEN PeerStatusRunning ELSE PeerStatusWaiting]
    /\ leave = {}
    /\ rsQueue = {}
    /\ panicked = FALSE
    /\ NoLoop
    /\ NoDriver
    /\ NoAux

NextSeed ==
    \/ \E obtain \in {"nil", "stream"} \cup SeedFailures : StartSeedTask(obtain)
    \/ \E r \in RecvResults : receivePiece(r)
    \/ \E p \in SeedPeers : initCdnPeerGet(p)
    \/ initCdnPeerAdd
    \/ receivedPiece
    \/ \E p \in peers, idle, expired, connected \in BOOLEAN :
            cleanupPeersVisit(p, idle, expired, connected)
    \/ cleanupPeersHostNum
    \/ cleanupPeersFinish

SpecSeed == InitSeed /\ [][NextSeed]_vars

(* ------------------------------------------------------ task-id generator *)
\* strings are sequences of characters
\* the length of the tail GenerateTaskID puts before the source (10), scaled
TailLen == 2

\* urlutils.FilterURLParam: the URL without the query parameters named in
\* the filter
FilterURLParam(url, filter) == SelectSeq(url, LAMBDA c : c \notin filter)

\* stringutils.SubString(str, start, end) of a string that holds the range
SubString(str, start, end) == SubSeq(str, start + 1, end)

\* digestutils.Sha256: the digest of a string; no two strings share one
Sha256(str) == <<"sha256", str>>

\* a generator that prefers the biz tag to the digest
GenerateTaskIDBizFirst(url, filter, meta, bizID) ==
    LET filtered == IF filter # {} THEN FilterURLParam(url, filter) ELSE url
        md5String == IF meta # <<>> THEN meta[1].Md5 ELSE <<>>
        rangeString == IF meta # <<>> THEN meta[1].Range ELSE <<>>
        tagged == IF bizID # <<>> THEN filtered \o <<"|">> \o bizID
                  ELSE IF md5String # <<>> THEN filtered \o <<"|">> \o md5String
                  ELSE filtered
        taskIdSource == IF rangeString # <<>>
                        THEN tagged \o <<"|">> \o rangeString ELSE tagged
    IN  Sha256(SubString(taskIdSource, Len(taskIdSource) - TailLen,
                         Len(taskIdSource)) \o taskIdSource)

\* GenerateTaskID; meta is <<>> for a nil *UrlMeta, else <<the UrlMeta>>, and
\* filter is the set strings.Split(filter, "&") makes of a filter that is not ""
GenerateTaskID(url, filter, meta, bizID) ==
    LET filtered == IF filter # {} THEN FilterURLParam(url, filter) ELSE url
        md5String == IF meta # <<>> THEN meta[1].Md5 ELSE <<>>
        rangeString == IF meta # <<>> THEN meta[1].Range ELSE <<>>
        tagged == IF md5String # <<>> THEN filtered \o <<"|">> \o md5String
                  ELSE IF bizID # <<>> THEN filtered \o <<"|">> \o bizID
                  ELSE filtered
        taskIdSource == IF rangeString # <<>>
                        THEN tagged \o <<"|">> \o rangeString ELSE tagged
    IN  Sha256(SubString(taskIdSource, Len(taskIdSource) - TailLen,
                         Len(taskIdSource)) \o taskIdSource)

\* the requests a task id is generated for: URLs at least as long as the tail
\* once filtered
TaskIDRequests ==
    [url : {<<"h", "t", "p">>, <<"h", "t", "p", "a">>,
            <<"h", "t", "p", "a", "b">>, <<"h", "t", "p", "b", "a">>},
     filter : {{}, {"a"}, {"a", "b"}},
     meta : {<<>>} \cup {<<[Md5 |-> m, Range |-> r]>> :
                            m \in {<<>>, <<"m">>}, r \in {<<>>, <<"r">>}},
     bizID : {<<>>, <<"z">>}]

\* a caller generates the task id of its request
GenerateTaskIDCall ==
    /\ ~idgen.called
    /\ idgen' = [idgen EXCEPT !.called = TRUE,
                    !.taskID = GenerateTaskID(idgen.url, idgen.filter,
                                              idgen.meta, idgen.bizID)]
    /\ UNCHANGED <<schedulerVars, now, pieceCosts, costHistory, finishedNum,
                   rpc, factory, progress>>


(* ------------------------------------------------------- scheduler client *)
\* the attempts of one call that are told apart: the count stops there
MaxAttempts == 3
\* what one attempt of a call returns: nil or the status code of its error;
\* NoClient when getSchedulerClient fails and no attempt is made
AttemptResults ==
    {"OK", "Canceled", "DeadlineExceeded", "Unavailable", "Internal", "NoClient"}

\* the call has made one more attempt, which returned r: it returns on
\* success, else it goes to its retry function with the cause given
Attempted(c, r, cause) ==
    LET c1 == [c EXCEPT !.attempts = Min(@ + 1, MaxAttempts), !.err = r]
    IN  IF r = "NoClient" THEN [c EXCEPT !.pc = "returned", !.ret = r]
        ELSE IF r = "OK" THEN [c1 EXCEPT !.pc = "returned", !.ret = "OK"]
        ELSE [c1 EXCEPT !.pc = "retry", !.cause = cause]

\* the retry function returns its cause without an attempt
Aborted(c) ==
    IF c.cause \in {"Canceled", "DeadlineExceeded"}
    THEN [c EXCEPT !.pc = "returned", !.ret = c.cause]
    ELSE c

ClientUnchanged ==
    UNCHANGED <<schedulerVars, now, pieceCosts, costHistory, finishedNum,
                idgen, factory, progress>>

\* RegisterPeerTask: the first attempt returns r; a failure starts the retries
RegisterPeerTask(r) ==
    /\ rpc.register.pc = "idle"
    /\ rpc' = [rpc EXCEPT !.register = Attempted(@, r, r)]
    /\ ClientUnchanged

\* one invocation of retryRegisterPeerTask(cause): its attempt returns r, and
\* a failure is the cause of the next invocation
retryRegisterPeerTask(r) ==
    /\ rpc.register.pc = "retry"
    /\ rpc' = [rpc EXCEPT !.register =
                    IF Aborted(@) # @ THEN Aborted(@) ELSE Attempted(@, r, r)]
    /\ ClientUnchanged

\* ReportPeerResult: the first attempt returns r; a failure starts the retries
ReportPeerResult(r) ==
    /\ rpc.report.pc = "idle"
    /\ rpc' = [rpc EXCEPT !.report = Attempted(@, r, r)]
    /\ ClientUnchanged

\* one invocation of retryReportPeerResult(cause): its attempt returns r, and
\* the next invocation is made with the same cause
retryReportPeerResult(r) ==
    /\ rpc.report.pc = "retry"
    /\ rpc' = [rpc EXCEPT !.report =
                    IF Aborted(@) # @ THEN Aborted(@)
                    ELSE Attempted(@, r, @.cause)]
    /\ ClientUnchanged

(* ------------------------------------------------------ evaluator factory *)
\* the read locks the model counts
MaxReaders == 3
\* the evaluator names that are registered with add; every
\* getEvaluatorFunc names the first one for the task
EvaluatorNames == {"default", "plugin"}

FactoryUnchanged ==
    UNCHANGED <<schedulerVars, now, pieceCosts, costHistory, finishedNum,
                idgen, rpc, progress>>

\* get: ef.lock.RLock()
getRLock(g) ==
    /\ factory.get[g].pc \in {"idle", "returned"}
    /\ factory.readers < MaxReaders
    /\ factory' = [factory EXCEPT !.readers = @ + 1,
                                  !.get[g] = [pc |-> "read", ret |-> "none"]]
    /\ FactoryUnchanged

\* get, under the read lock: a cached evaluator is returned after RUnlock; a
\* registered one is kept for the cache after RUnlock; without one, nil is
\* returned
getLookup(g) ==
    /\ factory.get[g].pc = "read"
    /\ factory' =
        IF factory.cache # "none"
        THEN [factory EXCEPT !.readers = @ - 1,
                             !.get[g] = [pc |-> "returned", ret |-> factory.cache]]
        ELSE IF "default" \in factory.evaluators
        THEN [factory EXCEPT !.readers = @ - 1,
                             !.get[g] = [pc |-> "lock", ret |-> "default"]]
        ELSE [factory EXCEPT !.get[g] = [pc |-> "returned", ret |-> "nil"]]
    /\ FactoryUnchanged

\* get: ef.lock.Lock(), the evaluator is cached, ef.lock.Unlock()
getLock(g) ==
    /\ factory.get[g].pc = "lock"
    /\ factory.readers = 0
    /\ factory' = [factory EXCEPT !.cache = factory.get[g].ret,
                                  !.get[g].pc = "returned"]
    /\ FactoryUnchanged

\* clearCache, between Lock and Unlock
clearCache ==
    /\ factory.readers = 0
    /\ factory' = [factory EXCEPT !.cache = "none"]
    /\ FactoryUnchanged

\* add(name, evaluator), between Lock and Unlock
add(name) ==
    /\ factory.readers = 0
    /\ factory' = [factory EXCEPT !.evaluators = @ \cup {name}]
    /\ FactoryUnchanged


(* -------------------------------------------------- seed progress manager *)
ProgressUnchanged ==
    UNCHANGED <<schedulerVars, now, pieceCosts, costHistory, finishedNum,
                idgen, rpc, factory>>

\* e.Next(): the element after e in its list, nil at the end and nil for an
\* element that is in no list
ElementNext(l, e) ==
    IF \E i \in 1..(Len(l) - 1) : l[i] = e
    THEN l[1 + CHOOSE i \in 1..(Len(l) - 1) : l[i] = e]
    ELSE Nil

\* PublishTask: the loop from element e on: chanList.Remove(e), close(sub),
\* e = e.Next()
RECURSIVE unwatch(_, _)
unwatch(m, e) ==
    IF e = Nil THEN m
    ELSE LET removed == SelectSeq(m.subs, LAMBDA x : x # e)
         IN  unwatch([m EXCEPT !.subs = removed, !.closed[e] = @ + 1],
                     ElementNext(removed, e))

\* WatchSeedProgress: a channel is made and pushed to the back of the list,
\* its goroutine started
WatchSeedProgress(ch) ==
    /\ progress.watcher[ch] = "none"
    /\ progress' = [progress EXCEPT !.subs = Append(@, ch),
                                    !.watcher[ch] = "sending"]
    /\ ProgressUnchanged

\* the goroutine of WatchSeedProgress has sent the records: when the task is
\* done it removes its element and closes its channel
WatchSeedProgressDone(ch) ==
    /\ progress.watcher[ch] = "sending"
    /\ progress' =
        IF progress.done
        THEN [progress EXCEPT !.subs = SelectSeq(@, LAMBDA x : x # ch),
                              !.closed[ch] = @ + 1,
                              !.watcher[ch] = "exited"]
        ELSE [progress EXCEPT !.watcher[ch] = "exited"]
    /\ ProgressUnchanged

\* the task manager marks the seed task done
SeedTaskDone ==
    /\ ~progress.done
    /\ progress' = [progress EXCEPT !.done = TRUE]
    /\ ProgressUnchanged

\* PublishTask, under the task's write lock
PublishTask ==
    /\ ~progress.published
    /\ progress' =
        [unwatch(progress, IF progress.subs = <<>> THEN Nil
                           ELSE Head(progress.subs))
            EXCEPT !.published = TRUE]
    /\ ProgressUnchanged


(* ------------------------------------------- peer timestamps, piece costs *)
\* the clock readings the model tells apart
MaxTime == 1
\* the piece costs AppendPieceCost is followed for
MaxPieceCosts == 3
\* the length AddPieceInfo cuts costHistory to (20), scaled
CostHistoryLimit == 2
\* the finished counts and the costs a piece result reports
MaxFinished == 3
PieceCostValues == 1..2

PeerDataUnchanged ==
    UNCHANGED <<schedulerVars, idgen, rpc, factory, progress>>

\* time passes
Tick ==
    /\ now < MaxTime
    /\ now' = now + 1
    /\ UNCHANGED <<pieceCosts, costHistory, finishedNum>>
    /\ PeerDataUnchanged

\* resource Peer.AppendPieceCost
AppendPieceCost(p, cost) ==
    /\ Len(pieceCosts[p]) < MaxPieceCosts
    /\ pieceCosts' = [pieceCosts EXCEPT ![p] = Append(@, cost)]
    /\ UNCHANGED <<now, costHistory, finishedNum>>
    /\ PeerDataUnchanged

\* supervisor Peer.AddPieceInfo
AddPieceInfo(p, finishedCount, cost) ==
    /\ IF finishedCount > finishedNum[p]
       THEN /\ finishedNum' = [finishedNum EXCEPT ![p] = finishedCount]
            /\ costHistory' =
                [costHistory EXCEPT ![p] =
                    LET h == Append(@, cost)
                    IN  IF Len(h) > CostHistoryLimit
                        THEN SubSeq(h, Len(h) - CostHistoryLimit + 1, Len(h))
                        ELSE h]
       ELSE UNCHANGED <<finishedNum, costHistory>>
    /\ UNCHANGED <<now, pieceCosts>>
    /\ PeerDataUnchanged

\* the scheduler is at rest: every peer Pending, no tree
NoScheduler ==
    /\ peers = Peers
    /\ fsm = [p \in Peers |-> PeerStatePending]
    /\ EmptyTree
    /\ hostPeers = Peers
    /\ stream = [p \in Peers |-> FALSE]
    /\ bts = {}
    /\ taskFsm = "Running"
    /\ failedCount = 0
    /\ slow = {}
    /\ sched = [p \in Peers |-> IdleSched]
    /\ NoEvents
    /\ NoLoop
    /\ NoDriver

(* ------------------------------------------- specifications of the parts *)
\* each part starts from rest
InitParts == NoScheduler /\ NoAux

\* the seed peer is downloading, the clients register and are scheduled
\* side by side
InitRace ==
    /\ peers = Peers
    /\ fsm = [p \in Peers |-> IF IsCDN(p) THEN PeerStateRunning ELSE PeerStatePending]
    /\ EmptyTree
    /\ hostPeers = Peers
    /\ stream = [p \in Peers |-> TRUE]
    /\ bts = {}
    /\ taskFsm = "Running"
    /\ failedCount = 0
    /\ slow = {}
    /\ sched = [p \in Peers |-> IdleSched]
    /\ NoEvents
    /\ NoLoop
    /\ NoDriver
    /\ NoAux

\* the seed peer fails while the clients are scheduled side by side
NextRace ==
    \/ \E p \in Clients, e \in {"RegisterNormal", "Download"} : FirePeerEvent(p, e)
    \/ \E p \in SeedPeers : FirePeerEvent(p, "DownloadFailed")
    \/ \E p \in Clients : ScheduleParentConcurrent(p, {})
    \/ \E p \in Peers : ScheduleParentCondition(p)
    \/ \E p \in Peers : ScheduleParentBackToSource(p)
    \/ \E p \in Peers : ScheduleParentReturn(p)

SpecRace == InitRace /\ [][NextRace]_vars

\* the peer FSM with a clock
NextPeer ==
    \/ \E p \in Peers, e \in PeerEvents : FirePeerEvent(p, e)
    \/ Tick

SpecPeer == InitParts /\ [][NextPeer]_vars

\* the piece results of the clients are recorded, by either generation
NextCosts ==
    \/ \E p \in Clients, cost \in PieceCostValues : AppendPieceCost(p, cost)
    \/ \E p \in Clients, n \in 1..MaxFinished, cost \in PieceCostValues :
            AddPieceInfo(p, n, cost)

SpecCosts == InitParts /\ [][NextCosts]_vars

\* a task id is generated for any request
InitTaskID ==
    /\ NoScheduler
    /\ NoPeerData
    /\ \E r \in TaskIDRequests : idgen = [called |-> FALSE, taskID |-> <<>>] @@ r
    /\ rpc = IdleClient
    /\ factory = newEvaluatorFactory
    /\ progress = NewManager

SpecTaskID == InitTaskID /\ [][GenerateTaskIDCall]_vars

\* a daemon registers a peer task and reports a peer result
NextClient ==
    \/ \E r \in AttemptResults : RegisterPeerTask(r)
    \/ \E r \in AttemptResults : retryRegisterPeerTask(r)
    \/ \E r \in AttemptResults : ReportPeerResult(r)
    \/ \E r \in AttemptResults : retryReportPeerResult(r)

\* every attempt of a call ends: the server answers or the transport fails
FairSpecClient ==
    /\ InitParts /\ [][NextClient]_vars
    /\ WF_vars(\E r \in AttemptResults : RegisterPeerTask(r))
    /\ WF_vars(\E r \in AttemptResults : retryRegisterPeerTask(r))
    /\ WF_vars(\E r \in AttemptResults : ReportPeerResult(r))
    /\ WF_vars(\E r \in AttemptResults : retryReportPeerResult(r))

\* goroutines get evaluators while evaluators are added and the cache cleared
NextFactory ==
    \/ \E g \in Getters : getRLock(g)
    \/ \E g \in Getters : getLookup(g)
    \/ \E g \in Getters : getLock(g)
    \/ clearCache
    \/ \E name \in EvaluatorNames : add(name)

SpecFactory == InitParts /\ [][NextFactory]_vars

\* subscribers watch the seed progress of a task that is then published
NextProgress ==
    \/ \E ch \in Chans : WatchSeedProgress(ch)
    \/ \E ch \in Chans : WatchSeedProgressDone(ch)
    \/ SeedTaskDone
    \/ PublishTask

SpecProgress == InitParts /\ [][NextProgress]_vars


(* ============================================================ properties *)
\* the peers below p, by the children sets
RECURSIVE DescendantsBy(_, _, _)
DescendantsBy(ch, p, fuel) ==
    IF fuel = 0 THEN {}
    ELSE ch[p] \cup UNION {DescendantsBy(ch, q, fuel - 1) : q \in ch[p]}

Descendants(p) == DescendantsBy(children, p, NumPeers)

\* the peers above p, by the parent pointers
Ancestors(p) == {q \in Peers : p \in Descendants(q)}

\* the peers with an edge to p, by the children sets
InEdges(ch, p) == {q \in Peers : p \in ch[q]}

\* C1 (as stated): the parent->child graph is acyclic: no peer is its own
\* ancestor.
C1_Acyclic == \A p \in Peers : p \notin Descendants(p)

\* C4 (as stated): no two events of the task are being applied at the same
\* time.
C4_OneEventAtATime ==
    \A w1, w2 \in Workers :
        (applying[w1] # NoEvent /\ applying[w2] # NoEvent) => w1 = w2

\* C2: every peer has at most one in-edge, in every state, and also between
\* the two halves of any parent replacement and right after it.
C2_AtMostOneParent ==
    \A p \in Peers :
        /\ Cardinality(InEdges(children, p)) <= 1
        /\ \A new \in peers \cup {Nil} :
              /\ Cardinality(InEdges(ReplaceParentDetached(Cur, p, new).children, p)) <= 1
              /\ Cardinality(InEdges(ReplaceParent(Cur, p, new).children, p)) <= 1

\* C2 (reached case): a peer with a parent that has a parent of its own, each with
\* exactly one in-edge
C2_Witness ==
    \E p \in Peers :
        /\ parent[p] # Nil /\ parent[parent[p]] # Nil
        /\ InEdges(children, p) = {parent[p]}
        /\ InEdges(children, parent[p]) = {parent[parent[p]]}

\* C3 (as stated): every peer has at most DepthLimit peers above it.
C3_DepthWithinLimit ==
    \A p \in Peers : Cardinality(Ancestors(p)) <= DepthLimit

TerminalStates == {PeerStateSucceeded, PeerStateFailed, PeerStateLeave}

\* C5 (as stated): once a peer's FSM is in Succeeded, Failed or Leave, no step
\* changes its state.
C5_TerminalStatesAreSinks ==
    [][\A p \in Peers : fsm[p] \in TerminalStates => fsm'[p] = fsm[p]]_vars

\* C5 (amended): Leave is a sink; a Failed peer can only move to Leave; a
\* Succeeded peer can only move to Failed or to Leave.
C5_OnlyLeaveIsSink ==
    [][\A p \in Peers :
          /\ fsm[p] = PeerStateLeave => fsm'[p] = PeerStateLeave
          /\ fsm[p] = PeerStateFailed => fsm'[p] \in {PeerStateFailed, PeerStateLeave}
          /\ fsm[p] = PeerStateSucceeded
                => fsm'[p] \in {PeerStateSucceeded, PeerStateFailed, PeerStateLeave}]_vars

\* C5 (reached case): the three terminal states are all occupied, the peer in
\* Leave is out of its host's peer set
C5_Witness ==
    \E p, q, r \in Peers :
        /\ fsm[p] = PeerStateLeave /\ p \notin hostPeers
        /\ fsm[q] = PeerStateSucceeded
        /\ fsm[r] = PeerStateFailed

SentCodes(p) == {sched[p].sent[i].code : i \in 1..Len(sched[p].sent)}

Done(p) == sched[p].pc = "done"

\* the returns of ScheduleParent on which nothing could be sent to the peer
Unreachable == {"ctx", "nostream", "senderr"}

\* the peer was given an instruction: a Success packet naming a parent, or a
\* SchedNeedBackSource packet
Instructed(p) ==
    \E i \in 1..Len(sched[p].sent) :
        \/ sched[p].sent[i].code = "Success" /\ sched[p].sent[i].main # Nil
        \/ sched[p].sent[i].code = "SchedNeedBackSource"

C9_BackSourceMeansBackToSourceState ==
    [][\A p \in Peers :
          (sched[p].pc = "loop" /\ sched'[p].pc = "done"
              /\ Packet("SchedNeedBackSource", Nil) \in
                    {sched'[p].sent[i] : i \in 1..Len(sched'[p].sent)})
            => fsm'[p] = PeerStateBackToSource /\ parent'[p] = Nil]_vars

\* C10: every candidate parent the filter returns for a child is not in the
\* blocklist, is not the child, is not a bad node, is neither a descendant nor
\* an ancestor of the child, and its host has a free upload slot.
C10_FilteredParentsAreEligible ==
    \A child \in Peers, blocklist \in SUBSET Peers :
        \A P \in filterParents(Cur, child, blocklist) : \A q \in P :
            /\ q \notin blocklist
            /\ q # child
            /\ fsm[q] \notin {PeerStateFailed, PeerStateLeave} /\ q \notin slow
            /\ q \notin Descendants(child)
            /\ q \notin Ancestors(child)
            /\ load[q] < TotalUploadLoad(q)

\* C10 (reached case): a running child that has descendants and a slow or
\* failed peer beside it still gets a candidate
C10_Witness ==
    \E child \in Peers :
        /\ fsm[child] = PeerStateRunning
        /\ Surviving(Cur, child, {}) # {}
        /\ Descendants(child) # {}
        /\ \E q \in Peers \ {child} : q \in slow \/ fsm[q] = PeerStateFailed

\* C11: no candidate parent the filter returns has a parent chain to its root
\* of exactly DepthLimit edges: a peer already at the depth limit is rejected.
C11_NoCandidateAtDepthLimit ==
    \A child \in Peers, blocklist \in SUBSET Peers :
        \A P \in filterParents(Cur, child, blocklist) : \A q \in P :
            Cardinality(Ancestors(q)) # DepthLimit

\* C11 (reached case): a peer at the depth limit, eligible in every other
\* respect as a parent of a running child, is not among the child's candidates
C11_Witness ==
    \E child \in Peers, q \in peers :
        /\ q # child
        /\ fsm[child] = PeerStateRunning
        /\ Cardinality(Ancestors(q)) = DepthLimit
        /\ ~IsBadNode(Cur, q)
        /\ q \notin Descendants(child) /\ q \notin Ancestors(child)
        /\ load[q] < TotalUploadLoad(q)
        /\ \A P \in filterParents(Cur, child, {}) : q \notin P

\* C12 (as stated): with no count configured, a scheduling attempt yields at
\* most the documented default number of candidate parents (the configured
\* number when one is configured).
C12_AtMostFilterParentLimit ==
    \A child \in Peers, blocklist \in SUBSET Peers :
        \A o \in NotifyAndFindParent(Cur, child, blocklist) :
            o.ok => Len(o.parents) <=
                (IF GetSchedulerClusterConfig.ok
                        /\ GetSchedulerClusterConfig.FilterParentCount > 0
                 THEN GetSchedulerClusterConfig.FilterParentCount
                 ELSE DefaultSchedulerFilterParentLimit)

\* C13: when a scheduling attempt succeeds, the returned parents are in
\* descending order of score, and the child's parent after the call is the
\* first of them, a parent no other returned parent outscores.
C13_ParentIsTopCandidate ==
    \A child \in Peers, blocklist \in SUBSET Peers :
        \A o \in NotifyAndFindParent(Cur, child, blocklist) :
            o.ok =>
                /\ o.s.parent[child] = o.parents[1]
                /\ child \in o.s.children[o.parents[1]]
                /\ \A i \in 1..Len(o.parents) :
                      o.score[o.parents[1]] >= o.score[o.parents[i]]
                /\ \A i, j \in 1..Len(o.parents) :
                      i < j => o.score[o.parents[i]] >= o.score[o.parents[j]]

\* C13 (reached case): a running child has two candidates of different
\* scores, and an attempt puts it under the higher-scored one
C13_Witness ==
    \E child \in Peers :
        /\ fsm[child] = PeerStateRunning
        /\ \E o \in NotifyAndFindParent(Cur, child, {}) :
              /\ o.ok /\ Len(o.parents) >= 2
              /\ o.score[o.parents[1]] > o.score[o.parents[2]]
              /\ o.s.parent[child] = o.parents[1]
              /\ o.parents[1] # parent[child]

\* C14 (as stated): after PeerLeave(p) is applied, p is in no registry and in
\* no peer set, has no parent, and is the parent of no remaining peer.
C14_LeftPeerIsGone ==
    \A p \in Clients \cap peers :
        \A w \in Applied(peerLeaveEvent(CurEv, p)) :
            /\ p \notin w.peers
            /\ p \notin w.hostPeers
            /\ w.parent[p] = Nil
            /\ \A q \in w.peers : w.parent[q] # p

\* C15 (as stated): after PeerDownloadFailed(p) is applied, p's status is Fail
\* and every peer that was a child of p has a different parent or is itself
\* queued for rescheduling.
C15_FailedPeerLosesChildren ==
    \A p \in Clients \cap peers :
        \A w \in Applied(peerDownloadFailEvent(CurEv, p)) :
            /\ w.status[p] = PeerStatusFail
            /\ \A c \in children[p] :
                  \/ w.parent[c] \notin {p, Nil}
                  \/ \E rs \in w.rsQueue : rs.peer = c

RescheduleAvoidsBlankParents ==
    \A rs \in rsQueue :
        \A w \in Applied(reScheduleParentEvent(CurEv, rs)) :
            w.parent[rs.peer] # parent[rs.peer]
                => w.parent[rs.peer] \notin rs.blankParents

C18_FailedLookupIsSkipped ==
    \A p \in Clients, d \in Peers :
        (d \notin peers /\ parent[p] # d)
            => \A w \in Applied({peerDownloadPieceSuccessEvent(CurEv, p, d)}) :
                  /\ ~w.panicked
                  /\ w.parent = parent
                  /\ w.rsQueue = rsQueue

\* the outcomes of the events that can be applied for peer p
EventsOf(p) ==
    {peerDownloadPieceSuccessEvent(CurEv, p, d) : d \in Peers}
        \cup {peerDownloadPieceFailEvent(CurEv, p, d, c) :
                  d \in Peers, c \in PieceFailCodes}
        \cup peerDownloadSuccessEvent(CurEv, p)
        \cup peerDownloadFailEvent(CurEv, p)
        \cup peerLeaveEvent(CurEv, p)

\* C19 (as stated): an event applied for a peer that was already deleted from
\* the registries completes without fault and changes neither the registries
\* nor the peer graph.
C19_LateEventsChangeNothing ==
    \A p \in Clients \ peers :
        \A w \in Applied(EventsOf(p)) :
            /\ ~w.panicked
            /\ w.peers = peers /\ w.hostPeers = hostPeers
            /\ w.parent = parent /\ w.children = children

\* C20 (as stated): after peerManager.Delete(p), p is in no peer set, has no
\* parent, and its stream, if it had one, is closed.
C20_DeleteCascades ==
    \A p \in peers :
        LET w == Delete(CurEv, p)
        IN  /\ p \notin w.peers /\ p \notin w.hostPeers
            /\ w.parent[p] = Nil
            /\ \A q \in Peers : p \notin w.children[q]
            /\ stream[p] => ~w.stream[p]

\* two worlds with the same registries, peer graph and handler state
SameWorld(a, b) ==
    /\ a.peers = b.peers /\ a.hostPeers = b.hostPeers
    /\ a.parent = b.parent /\ a.children = b.children /\ a.load = b.load
    /\ a.status = b.status /\ a.leave = b.leave /\ a.rsQueue = b.rsQueue
    /\ a.bts = b.bts /\ a.taskFsm = b.taskFsm /\ a.panicked = b.panicked

\* C21 (as stated): a sweep of the peer GC over a peer that is idle longer
\* than peer_tti, not terminal and not a seed sets it to Zombie, and leaves
\* the world a PeerLeave event of that peer leaves exactly when the peer has
\* no stream attached; with a stream attached nothing else changes.
C21_IdlePeerIsZombieAndLeaves ==
    \A p \in peers, connected \in BOOLEAN :
        (status[p] \notin {PeerStatusSuccess, PeerStatusFail} /\ ~IsCDN(p)
            /\ p \notin leave)
            => LET zombie == [CurEv EXCEPT !.status[p] = PeerStatusZombie]
               IN  \A w \in Applied({cleanupPeer(CurEv, p, TRUE, FALSE, connected)}) :
                      /\ w.status[p] = PeerStatusZombie
                      /\ IF connected
                         THEN SameWorld(w, zombie)
                         ELSE \E v \in peerLeaveEvent(zombie, p) : SameWorld(w, v)

\* C22: a sweep of the peer GC over a peer idle longer than peer_ttl removes
\* it from the peer registry and from its host's peer set, whatever its
\* status, whether or not a stream is attached and whether or not it is a
\* seed peer.
C22_ExpiredPeerIsRemoved ==
    \A p \in peers, idle, connected \in BOOLEAN :
        \A w \in Applied({cleanupPeer(CurEv, p, idle, TRUE, connected)}) :
            p \notin w.peers /\ p \notin w.hostPeers

\* C22 (reached case): a connected seed peer with a child and a connected
\* client that succeeded are both removed by the sweep
C22_Witness ==
    /\ \E p \in peers \cap SeedPeers :
          /\ children[p] # {}
          /\ \E w \in Applied({cleanupPeer(CurEv, p, TRUE, TRUE, TRUE)}) :
                p \notin w.peers
    /\ \E p \in peers \ SeedPeers :
          /\ status[p] = PeerStatusSuccess
          /\ \E w \in Applied({cleanupPeer(CurEv, p, TRUE, TRUE, TRUE)}) :
                p \notin w.peers

\* C23 (as stated): a sweep of the peer GC never removes a seed peer on
\* account of its idle time: a seed peer that has not failed and is not
\* marked as left is still registered after the sweep, however long it was
\* idle.
C23_SeedPeerSurvivesSweep ==
    \A p \in peers \cap SeedPeers, idle, expired, connected \in BOOLEAN :
        (status[p] # PeerStatusFail /\ p \notin leave)
            => \A w \in Applied({cleanupPeer(CurEv, p, idle, expired, connected)}) :
                  p \in w.peers /\ p \in w.hostPeers

\* C29 (as stated): in every state of a peer's FSM the Leave event is
\* accepted, and firing it leaves the FSM in Leave.
C29_LeaveAcceptedInEveryState ==
    \A p \in Peers :
        /\ PeerEventCan(Cur, p, "Leave")
        /\ PeerEvent(Cur, p, "Leave").fsm[p] = PeerStateLeave

\* C29 (amended): the Leave event is accepted in every state but Leave; it
\* then moves the FSM to Leave, removes the peer's in-edge and takes the peer
\* out of its host's peer set. In Leave the event is rejected and nothing
\* changes.
C29_LeaveAcceptedOutsideLeave ==
    \A p \in Peers :
        LET s == PeerEvent(Cur, p, "Leave")
        IN  IF fsm[p] = PeerStateLeave
            THEN ~PeerEventCan(Cur, p, "Leave") /\ s = Cur
            ELSE /\ PeerEventCan(Cur, p, "Leave")
                 /\ s.fsm[p] = PeerStateLeave
                 /\ s.parent[p] = Nil
                 /\ \A q \in Peers : p \notin s.children[q]
                 /\ p \notin s.hostPeers

\* C29 (reached case): one peer has left and is out of its host's peer set, a
\* succeeded and a failed peer can still leave
C29_Witness ==
    \E p, q, r \in Peers :
        /\ fsm[p] = PeerStateLeave /\ parent[p] = Nil /\ p \notin hostPeers
        /\ fsm[q] = PeerStateSucceeded
        /\ PeerEvent(Cur, q, "Leave").fsm[q] = PeerStateLeave
        /\ fsm[r] = PeerStateFailed
        /\ PeerEvent(Cur, r, "Leave").fsm[r] = PeerStateLeave

C25_UploadSlotsNeverNegative ==
    \A p \in Peers : load[p] >= 0 /\ FreeUploadLoad(Cur, p) >= 0

\* C24 (as stated): the peer GC changes the registries only as an event of
\* the event loop: while it is between two of its changes, no worker is
\* applying an event of the task.
C24_SweepNeverOverlapsEvent ==
    gc.pc # "idle" => \A w \in Workers : applying[w] = NoEvent

\* C27 (as stated): the host of every peer stored in the peer manager is
\* stored in the host manager.
C27_HostOutlivesPeer == \A p \in peers : p \in hosts

\* C30 (as stated): StartSeedTask returns nil only if the task's status is
\* Success at that moment, and every other return is one of the five seed
\* errors.
C30_SeedErrorKinds ==
    seed.pc = "done"
        => IF seed.ret = "OK" THEN seed.task = TaskStatusSuccess
           ELSE seed.ret \in {"ErrCDNRegisterFail", "ErrCDNDownloadFail",
                              "ErrCDNUnknown", "ErrCDNInvokeFail",
                              "ErrInitCDNPeerFail"}

LastChars(str, n) == SubSeq(str, Len(str) - n + 1, Len(str))

\* the first of two strings that is not empty, the empty string without one
FirstOf(a, b) == IF a # <<>> THEN a ELSE b

\* the digest and the range of the request, empty for a nil meta
DigestOf(r) == IF r.meta = <<>> THEN <<>> ELSE r.meta[1].Md5
RangeOf(r) == IF r.meta = <<>> THEN <<>> ELSE r.meta[1].Range

\* a part of the source: nothing for an empty string, else "|" and the string
Part(str) == IF str = <<>> THEN <<>> ELSE <<"|">> \o str

\* C31 (as stated): the task id is sha256(tail + source), source being the
\* filtered URL, then "|" and the digest (or the biz tag, or nothing), then
\* "|" and the range (or nothing), tail being the last characters of source
C31_TaskIDOfFixedFormat ==
    idgen.called =>
        LET source == FilterURLParam(idgen.url, idgen.filter)
                      \o <<"|">> \o FirstOf(DigestOf(idgen), idgen.bizID)
                      \o <<"|">> \o RangeOf(idgen)
        IN  idgen.taskID = Sha256(LastChars(source, TailLen) \o source)

\* C31 (amended): the task id is sha256(tail + source), source being the
\* filtered URL, then "|" and the digest (or the biz tag) when there is one,
\* then "|" and the range when there is one, tail being the last characters
\* of source
C31_TaskIDOfSource ==
    idgen.called =>
        LET source == FilterURLParam(idgen.url, idgen.filter)
                      \o Part(FirstOf(DigestOf(idgen), idgen.bizID))
                      \o Part(RangeOf(idgen))
        IN  idgen.taskID = Sha256(LastChars(source, TailLen) \o source)

\* a task id was generated for a request with a filter that strips a
\* parameter, with a digest and a biz tag, and with a range
C31_Witness ==
    /\ idgen.called
    /\ FilterURLParam(idgen.url, idgen.filter) # idgen.url
    /\ DigestOf(idgen) # <<>> /\ idgen.bizID # <<>> /\ RangeOf(idgen) # <<>>

\* C32: every transition of a peer's FSM, the one into Leave included, stores
\* the current time in the peer's UpdateAt
C32_EveryTransitionUpdatesLastAccess ==
    [][\A p \in Peers : fsm'[p] # fsm[p] => updateAt'[p] = now]_vars

\* C33: once a peer has left, no stream is attached to it: LoadStream
\* reports absence
C33_NoStreamAfterLeave ==
    \A p \in Peers : fsm[p] = PeerStateLeave => ~LoadStream(Cur, p)

\* C34: no peer retains more piece costs than the bound, in either slice
C34_PieceCostsBounded ==
    \A p \in Peers :
        /\ Len(pieceCosts[p]) <= CostHistoryLimit
        /\ Len(costHistory[p]) <= CostHistoryLimit

\* C35: an attempt of NotifyAndFindParent that returns ok = false (the peer is
\* not Running, no candidate survives the filter, no stream is attached, or the
\* send fails) leaves every parent edge, every child set and every peer's
\* upload load as they were before the attempt
C35_FailedAttemptChangesNothing ==
    \A p \in Peers : \A o \in NotifyAndFindParent(Cur, p, sched[p].blk) :
        ~o.ok => /\ o.s.parent = parent
                 /\ o.s.children = children
                 /\ o.s.load = load

\* a Running peer with a stream and a parent edge, whose loop has had an
\* attempt fail although a candidate survived the filter: the send failed
C35_Witness ==
    \E p \in Peers :
        /\ sched[p].n > 0
        /\ fsm[p] = PeerStateRunning
        /\ LoadStream(Cur, p)
        /\ parent[p] # Nil
        /\ \E P \in filterParents(Cur, p, sched[p].blk) : P # {}

\* C36: the peers of the task that are in back-to-source at the same time
\* never number more than the back-to-source limit, also when several
\* ScheduleParent loops of the task's peers run side by side
C36_BackToSourceWithinLimit ==
    /\ Cardinality(bts) <= BackToSourceLimit
    /\ Cardinality({p \in Peers : fsm[p] = PeerStateBackToSource}) <= BackToSourceLimit

\* C37: a peer is in the task's BackToSourcePeers exactly while its FSM is in
\* BackToSource; it leaves the set when it leaves that state by succeeding,
\* by failing or by leaving
C37_BackToSourcePeersAreInBackToSource ==
    \A p \in Peers : p \in bts <=> fsm[p] = PeerStateBackToSource

\* C38: RegisterPeerTask and ReportPeerResult of the scheduler client return,
\* after a bounded number of attempts, also when every attempt fails with an
\* error other than Canceled and DeadlineExceeded
C38_ClientCallsReturn ==
    /\ <>(rpc.register.pc = "returned")
    /\ <>(rpc.report.pc = "returned")

\* C39: get releases the read lock of the factory on every path it returns
\* by, the one that returns nil included: the read locks held are those of
\* the calls of get that have not returned, so that with no call of get under
\* way a writer (add, clearCache) can take the lock
C39_GetReleasesReadLock ==
    factory.readers = Cardinality({g \in Getters : factory.get[g].pc = "read"})

\* C40: when PublishTask returns, every channel subscribed before through
\* WatchSeedProgress has been closed exactly once and is in the task's
\* subscriber list no more
C40_PublishTaskClosesEverySubscriber ==
    [][(~progress.published /\ progress'.published) =>
            \A ch \in Chans : progress.watcher[ch] # "none" =>
                /\ progress'.closed[ch] = 1
                /\ \A i \in 1..Len(progress'.subs) : progress'.subs[i] # ch]_vars

====
